---------------------------- MODULE Spec2Model ----------------------------
(***************************************************************************)
(* A model of the narrative engine of paradox-patchwork-loop:              *)
(*   src/src/player.py      CommandParser, Player                          *)
(*   src/src/utils.py       HistoryTracker                                 *)
(*   src/src/story_node.py  StoryNode, StoryGraph                          *)
(*   src/src/story_loop.py  StoryGenerator, InfiniteStoryLoop              *)
(*                                                                         *)
(* Conventions.                                                            *)
(*  - A Python str is a sequence of one-character strings, so that         *)
(*    lower(), strip(), split(), startswith(), "in" and the ordering of    *)
(*    sorted() are computed and not assumed.                               *)
(*  - None, where a str is expected, is the value None below; a node id    *)
(*    is a positive number (uuid4 values are pairwise distinct: the k-th   *)
(*    node constructed by the engine has id k) and NoId stands for None.   *)
(*  - Generated narrative text is a sequence of segments: the template     *)
(*    family that produced it and the annotations appended to it.  Which   *)
(*    template of a family random.choice picked is not recorded.           *)
(***************************************************************************)
EXTENDS Integers, Sequences, FiniteSets, TLC

VARIABLES
  nodes,          \* StoryGraph.nodes: the nodes in insertion order (a dict keeps it)
  root_id,        \* StoryGraph.root_id
  current_node,   \* InfiniteStoryLoop.current_node, as the id of the node
  player,         \* the Player
  history,        \* the HistoryTracker: entries and state_hashes
  paradox_count,  \* InfiniteStoryLoop.paradox_count
  rewrite_count,  \* InfiniteStoryLoop.rewrite_count
  next_id,        \* the number of node ids drawn so far
  response,       \* what the last process_input call returned
  paradox,        \* whether the last process_input call ran _detect_paradox, and
                  \* the Paradox it returned
  call,           \* the last call: the operation and its arguments
  result          \* what the last call on a Player, HistoryTracker or StoryGraph
                  \* returned

vars == <<nodes, root_id, current_node, player, history, paradox_count,
          rewrite_count, next_id, response, paradox, call, result>>

None == <<"<None>">>
NoId == 0

-----------------------------------------------------------------------------
(* Python str operations                                                   *)

\* the characters of the model in code-point order
CHARS ==
  << " ", "\"", ",", "0", "1", "2", "3", "4", "5", "6", "7", "8", "9", ":", "?",
     "A", "B", "C", "D", "E", "F", "G", "H", "I", "J", "K", "L", "M",
     "N", "O", "P", "Q", "R", "S", "T", "U", "V", "W", "X", "Y", "Z",
     "[", "]", "_",
     "a", "b", "c", "d", "e", "f", "g", "h", "i", "j", "k", "l", "m",
     "n", "o", "p", "q", "r", "s", "t", "u", "v", "w", "x", "y", "z",
     "{", "}" >>

\* positions of "A".."Z" in CHARS; "a" follows "A" by 29 positions

ord(c) == CHOOSE i \in DOMAIN CHARS : CHARS[i] = c

\* str.lower()
lower_char ==
  [c \in {CHARS[i] : i \in DOMAIN CHARS} |->
     IF ord(c) \in 16..41 THEN CHARS[ord(c) + 29] ELSE c]
lower(s) == [i \in DOMAIN s |-> lower_char[s[i]]]

\* str.startswith(prefix)
startswith(s, prefix) ==
  /\ Len(prefix) <= Len(s)
  /\ SubSeq(s, 1, Len(prefix)) = prefix

\* substring test: sub in s
contains(s, sub) ==
  \E i \in 0..(Len(s) - Len(sub)) : SubSeq(s, i + 1, i + Len(sub)) = sub

\* s < t for two str (code-point lexicographic order)
RECURSIVE str_less(_, _)
str_less(s, t) ==
  IF t = <<>> THEN FALSE
  ELSE IF s = <<>> THEN TRUE
  ELSE IF s[1] # t[1] THEN ord(s[1]) < ord(t[1])
  ELSE str_less(Tail(s), Tail(t))

\* str.strip()
RECURSIVE lstrip(_)
lstrip(s) == IF s # <<>> /\ s[1] = " " THEN lstrip(Tail(s)) ELSE s
RECURSIVE rstrip(_)
rstrip(s) ==
  IF s # <<>> /\ s[Len(s)] = " " THEN rstrip(SubSeq(s, 1, Len(s) - 1)) ELSE s
strip(s) == rstrip(lstrip(s))

\* str.split(): the maximal runs of non-blank characters
RECURSIVE split_from(_, _, _)
split_from(s, i, word) ==
  IF i > Len(s) THEN (IF word = <<>> THEN <<>> ELSE <<word>>)
  ELSE IF s[i] = " "
       THEN (IF word = <<>> THEN <<>> ELSE <<word>>) \o split_from(s, i + 1, <<>>)
       ELSE split_from(s, i + 1, Append(word, s[i]))
split(s) == split_from(s, 1, <<>>)

\* sep.join(words)
RECURSIVE join(_, _)
join(sep, words) ==
  IF words = <<>> THEN <<>>
  ELSE IF Len(words) = 1 THEN words[1]
  ELSE words[1] \o sep \o join(sep, Tail(words))

\* x in list
in_list(x, list) == \E i \in DOMAIN list : list[i] = x

\* truthiness of an Optional[str]
truthy(x) == x # None /\ x # <<>>

\* str(x) inside an f-string, for an Optional[str]
fmt(x) == IF x = None THEN <<"N", "o", "n", "e">> ELSE x

\* sorted(list of str)
RECURSIVE insert_sorted(_, _)
insert_sorted(x, sorted_list) ==
  IF sorted_list = <<>> THEN <<x>>
  ELSE IF str_less(x, sorted_list[1]) THEN <<x>> \o sorted_list
  ELSE <<sorted_list[1]>> \o insert_sorted(x, Tail(sorted_list))
RECURSIVE sorted(_)
sorted(list) ==
  IF list = <<>> THEN <<>>
  ELSE insert_sorted(list[Len(list)], sorted(SubSeq(list, 1, Len(list) - 1)))

\* seq[lo:hi] and seq[lo:] with Python's treatment of negative and
\* out-of-range indices
py_index(n, i) == IF i < 0 THEN (IF n + i < 0 THEN 0 ELSE n + i)
                  ELSE (IF i > n THEN n ELSE i)
py_slice(s, lo, hi) == SubSeq(s, py_index(Len(s), lo) + 1, py_index(Len(s), hi))
py_from(s, lo) == SubSeq(s, py_index(Len(s), lo) + 1, Len(s))

\* the orders in which the elements of a set can be iterated
orders(S) ==
  {order \in [1..Cardinality(S) -> S] :
     \A i, j \in DOMAIN order : order[i] = order[j] => i = j}

\* list(S), for a set S iterated along order
list_of(S, order) == SelectSeq(order, LAMBDA x : x \in S)

\* set(list)
set_of(list) == {list[i] : i \in DOMAIN list}

\* d[key] = value on a dict held as a sequence of <<key, value>> pairs in
\* insertion order
dict_set(d, key, value) ==
  IF \E i \in DOMAIN d : d[i][1] = key
  THEN [i \in DOMAIN d |-> IF d[i][1] = key THEN <<key, value>> ELSE d[i]]
  ELSE Append(d, <<key, value>>)

-----------------------------------------------------------------------------
(* String constants of the source                                          *)

s_go == <<"g","o">> \* "go"
s_use == <<"u","s","e">> \* "use"
s_the_beginning == <<"t","h","e"," ","b","e","g","i","n","n","i","n","g">> \* "the beginning"

\* CommandParser.VERBS: canonical verb -> aliases, in declaration order
VERBS ==
  << [key |-> <<"g","o">>, \* go: go, walk, move, travel, head
      vals |-> <<<<"g","o">>, <<"w","a","l","k">>, <<"m","o","v","e">>, <<"t","r","a","v","e","l">>, <<"h","e","a","d">>>>],
     [key |-> <<"t","a","k","e">>, \* take: take, pick, grab, get, collect
      vals |-> <<<<"t","a","k","e">>, <<"p","i","c","k">>, <<"g","r","a","b">>, <<"g","e","t">>, <<"c","o","l","l","e","c","t">>>>],
     [key |-> <<"d","r","o","p">>, \* drop: drop, put, leave, discard
      vals |-> <<<<"d","r","o","p">>, <<"p","u","t">>, <<"l","e","a","v","e">>, <<"d","i","s","c","a","r","d">>>>],
     [key |-> <<"l","o","o","k">>, \* look: look, examine, inspect, observe, see
      vals |-> <<<<"l","o","o","k">>, <<"e","x","a","m","i","n","e">>, <<"i","n","s","p","e","c","t">>, <<"o","b","s","e","r","v","e">>, <<"s","e","e">>>>],
     [key |-> <<"t","a","l","k">>, \* talk: talk, speak, ask, tell, say
      vals |-> <<<<"t","a","l","k">>, <<"s","p","e","a","k">>, <<"a","s","k">>, <<"t","e","l","l">>, <<"s","a","y">>>>],
     [key |-> <<"u","s","e">>, \* use: use, activate, operate, interact
      vals |-> <<<<"u","s","e">>, <<"a","c","t","i","v","a","t","e">>, <<"o","p","e","r","a","t","e">>, <<"i","n","t","e","r","a","c","t">>>>],
     [key |-> <<"o","p","e","n">>, \* open: open, unlock
      vals |-> <<<<"o","p","e","n">>, <<"u","n","l","o","c","k">>>>],
     [key |-> <<"c","l","o","s","e">>, \* close: close, shut, lock
      vals |-> <<<<"c","l","o","s","e">>, <<"s","h","u","t">>, <<"l","o","c","k">>>>],
     [key |-> <<"a","t","t","a","c","k">>, \* attack: attack, fight, hit, strike
      vals |-> <<<<"a","t","t","a","c","k">>, <<"f","i","g","h","t">>, <<"h","i","t">>, <<"s","t","r","i","k","e">>>>],
     [key |-> <<"h","e","l","p">>, \* help: help, ?, commands
      vals |-> <<<<"h","e","l","p">>, <<"?">>, <<"c","o","m","m","a","n","d","s">>>>],
     [key |-> <<"s","t","a","t","u","s">>, \* status: status, inventory, inv, i
      vals |-> <<<<"s","t","a","t","u","s">>, <<"i","n","v","e","n","t","o","r","y">>, <<"i","n","v">>, <<"i">>>>],
     [key |-> <<"q","u","i","t">>, \* quit: quit, exit, q
      vals |-> <<<<"q","u","i","t">>, <<"e","x","i","t">>, <<"q">>>>],
     [key |-> <<"s","a","v","e">>, \* save: save
      vals |-> <<<<"s","a","v","e">>>>],
     [key |-> <<"l","o","a","d">>, \* load: load, restore
      vals |-> <<<<"l","o","a","d">>, <<"r","e","s","t","o","r","e">>>>],
     [key |-> <<"m","a","p">>, \* map: map, history
      vals |-> <<<<"m","a","p">>, <<"h","i","s","t","o","r","y">>>>] >>
\* CommandParser.PREPOSITIONS
PREPOSITIONS ==
  << <<"t","o">>, \* to
     <<"a","t">>, \* at
     <<"w","i","t","h">>, \* with
     <<"o","n">>, \* on
     <<"i","n">>, \* in
     <<"f","r","o","m">>, \* from
     <<"t","h","e">>, \* the
     <<"a">>, \* a
     <<"a","n">> >> \* an
\* the directions table of CommandParser.get_direction
DIRECTIONS ==
  << [key |-> <<"n","o","r","t","h">>, \* north: north, n, up
      vals |-> <<<<"n","o","r","t","h">>, <<"n">>, <<"u","p">>>>],
     [key |-> <<"s","o","u","t","h">>, \* south: south, s, down
      vals |-> <<<<"s","o","u","t","h">>, <<"s">>, <<"d","o","w","n">>>>],
     [key |-> <<"e","a","s","t">>, \* east: east, e, right
      vals |-> <<<<"e","a","s","t">>, <<"e">>, <<"r","i","g","h","t">>>>],
     [key |-> <<"w","e","s","t">>, \* west: west, w, left
      vals |-> <<<<"w","e","s","t">>, <<"w">>, <<"l","e","f","t">>>>],
     [key |-> <<"n","o","r","t","h","e","a","s","t">>, \* northeast: northeast, ne
      vals |-> <<<<"n","o","r","t","h","e","a","s","t">>, <<"n","e">>>>],
     [key |-> <<"n","o","r","t","h","w","e","s","t">>, \* northwest: northwest, nw
      vals |-> <<<<"n","o","r","t","h","w","e","s","t">>, <<"n","w">>>>],
     [key |-> <<"s","o","u","t","h","e","a","s","t">>, \* southeast: southeast, se
      vals |-> <<<<"s","o","u","t","h","e","a","s","t">>, <<"s","e">>>>],
     [key |-> <<"s","o","u","t","h","w","e","s","t">>, \* southwest: southwest, sw
      vals |-> <<<<"s","o","u","t","h","w","e","s","t">>, <<"s","w">>>>] >>
\* location_map of _get_location_in_direction
location_map ==
  << [key |-> <<"n","o","r","t","h">>, \* north: the library, the clock tower, the void
      vals |-> <<<<"t","h","e"," ","l","i","b","r","a","r","y">>, <<"t","h","e"," ","c","l","o","c","k"," ","t","o","w","e","r">>, <<"t","h","e"," ","v","o","i","d">>>>],
     [key |-> <<"s","o","u","t","h">>, \* south: the garden, the market, the beginning
      vals |-> <<<<"t","h","e"," ","g","a","r","d","e","n">>, <<"t","h","e"," ","m","a","r","k","e","t">>, <<"t","h","e"," ","b","e","g","i","n","n","i","n","g">>>>],
     [key |-> <<"e","a","s","t">>, \* east: the mirror hall, the crossroads
      vals |-> <<<<"t","h","e"," ","m","i","r","r","o","r"," ","h","a","l","l">>, <<"t","h","e"," ","c","r","o","s","s","r","o","a","d","s">>>>],
     [key |-> <<"w","e","s","t">>, \* west: the crossroads, the garden
      vals |-> <<<<"t","h","e"," ","c","r","o","s","s","r","o","a","d","s">>, <<"t","h","e"," ","g","a","r","d","e","n">>>>] >>
\* keys of TEMPLATES['location_descriptions'], in declaration order
all_locations ==
  << <<"t","h","e"," ","b","e","g","i","n","n","i","n","g">>, \* the beginning
     <<"t","h","e"," ","c","r","o","s","s","r","o","a","d","s">>, \* the crossroads
     <<"t","h","e"," ","l","i","b","r","a","r","y">>, \* the library
     <<"t","h","e"," ","m","i","r","r","o","r"," ","h","a","l","l">>, \* the mirror hall
     <<"t","h","e"," ","g","a","r","d","e","n">>, \* the garden
     <<"t","h","e"," ","v","o","i","d">>, \* the void
     <<"t","h","e"," ","c","l","o","c","k"," ","t","o","w","e","r">>, \* the clock tower
     <<"t","h","e"," ","m","a","r","k","e","t">> >> \* the market
\* items of _generate_next_node
GRANT_ITEMS ==
  << <<"s","t","r","a","n","g","e"," ","k","e","y">>, \* strange key
     <<"g","l","o","w","i","n","g"," ","o","r","b">>, \* glowing orb
     <<"a","n","c","i","e","n","t"," ","m","a","p">>, \* ancient map
     <<"c","r","y","p","t","i","c"," ","n","o","t","e">> >> \* cryptic note
\* the is_command list of CommandParser.parse
SYSTEM_VERBS ==
  << <<"h","e","l","p">>, \* help
     <<"s","t","a","t","u","s">>, \* status
     <<"q","u","i","t">>, \* quit
     <<"s","a","v","e">>, \* save
     <<"l","o","a","d">>, \* load
     <<"m","a","p">> >> \* map

-----------------------------------------------------------------------------
(* CommandParser (src/src/player.py)                                       *)

\* the canonical verb whose alias list holds word, else None
RECURSIVE verb_of_from(_, _)
verb_of_from(word, k) ==
  IF k > Len(VERBS) THEN None
  ELSE IF in_list(word, VERBS[k].vals) THEN VERBS[k].key
  ELSE verb_of_from(word, k + 1)
verb_of(word) == verb_of_from(word, 1)

\* the index of the first word that is a verb alias, 0 when there is none
RECURSIVE verb_index_from(_, _)
verb_index_from(words, i) ==
  IF i > Len(words) THEN 0
  ELSE IF verb_of(words[i]) # None THEN i
  ELSE verb_index_from(words, i + 1)

\* while target_words and target_words[0] in PREPOSITIONS: target_words.pop(0)
RECURSIVE drop_prepositions(_)
drop_prepositions(target_words) ==
  IF target_words # <<>> /\ in_list(target_words[1], PREPOSITIONS)
  THEN drop_prepositions(Tail(target_words))
  ELSE target_words

parse(input_text) ==
  LET original == strip(input_text)
      cleaned == lower(original)
  IN IF cleaned = <<>>
     THEN [verb |-> None, target |-> None, original |-> original,
           is_command |-> FALSE]
     ELSE
       LET words == split(cleaned)
           verb_index == verb_index_from(words, 1)
           verb == IF verb_index = 0 THEN None ELSE verb_of(words[verb_index])
           target_words ==
             drop_prepositions(SubSeq(words, verb_index + 1, Len(words)))
           target == IF verb # None /\ verb_index < Len(words)
                        /\ target_words # <<>>
                     THEN join(<<" ">>, target_words)
                     ELSE None
       IN IF verb = None
          THEN [verb |-> <<"f","r","e","e","f","o","r","m">> (* "freeform" *), target |-> cleaned,
                original |-> original, is_command |-> FALSE]
          ELSE [verb |-> verb, target |-> target, original |-> original,
                is_command |-> in_list(verb, SYSTEM_VERBS)]

RECURSIVE direction_of_from(_, _)
direction_of_from(target_lower, k) ==
  IF k > Len(DIRECTIONS) THEN target_lower
  ELSE IF in_list(target_lower, DIRECTIONS[k].vals) THEN DIRECTIONS[k].key
  ELSE direction_of_from(target_lower, k + 1)

get_direction(target) ==
  IF ~truthy(target) THEN None
  ELSE direction_of_from(strip(lower(target)), 1)

-----------------------------------------------------------------------------
(* Player (src/src/player.py)                                              *)

\* Optional[list] and Optional[int] results
NoValue == [kind |-> "None", value |-> <<>>]
Some(v) == [kind |-> "value", value |-> v]

\* a faulty variant of _save_state: the snapshot replaces the earlier ones
save_last_state(p) ==
  [p EXCEPT !.state_history =
     <<[location |-> p.current_location,
        inventory |-> p.inventory,
        visited_locations |-> p.visited_locations,
        choice_count |-> Len(p.choice_history)]>>]

\* Player._save_state
_save_state(p) ==
  [p EXCEPT !.state_history =
     Append(@, [location |-> p.current_location,
                inventory |-> p.inventory,
                visited_locations |-> p.visited_locations,
                choice_count |-> Len(p.choice_history)])]

\* Player(current_location=...) followed by __post_init__
Player(current_location) ==
  _save_state([inventory |-> <<>>,
               current_location |-> current_location,
               visited_locations |-> {current_location},
               choice_history |-> <<>>,
               action_history |-> <<>>,
               state_history |-> <<>>,
               flags |-> <<>>,
               variables |-> <<>>])

\* a faulty variant of has_item: every item is held
has_every_item(p, item) == TRUE

has_item(p, item) ==
  \E i \in DOMAIN p.inventory : lower(p.inventory[i]) = lower(item)

\* a faulty variant of add_item: the item is looked up as it is spelled
add_item_exact(p, item) ==
  IF in_list(item, p.inventory) THEN p
  ELSE [p EXCEPT !.inventory = Append(@, item)]

\* Player.add_item: the value returned, and the player afterwards
add_item_returns(p, item) ==
  ~in_list(lower(item), [i \in DOMAIN p.inventory |-> lower(p.inventory[i])])
add_item(p, item) ==
  IF add_item_returns(p, item)
  THEN [p EXCEPT !.inventory = Append(@, item)]
  ELSE p

\* Player.remove_item: the value returned, and the player afterwards
remove_item_returns(p, item) ==
  \E i \in DOMAIN p.inventory : lower(p.inventory[i]) = lower(item)
remove_item(p, item) ==
  IF remove_item_returns(p, item)
  THEN LET i == CHOOSE j \in DOMAIN p.inventory :
                  /\ lower(p.inventory[j]) = lower(item)
                  /\ \A k \in 1..(j - 1) : lower(p.inventory[k]) # lower(item)
       IN [p EXCEPT !.inventory =
             SubSeq(@, 1, i - 1) \o SubSeq(@, i + 1, Len(@))]
  ELSE p

move_to(p, location) ==
  _save_state([p EXCEPT !.current_location = location,
                        !.visited_locations = @ \cup {location}])

\* a faulty variant of record_choice: the node id is not recorded
record_action_only(p, node_id, command) ==
  _save_state([p EXCEPT !.action_history = Append(@, command)])

record_choice(p, node_id, command) ==
  _save_state([p EXCEPT !.choice_history = Append(@, node_id),
                        !.action_history = Append(@, command)])

get_action_pattern(p) ==
  [i \in DOMAIN p.action_history |-> p.action_history[i].verb]

\* a faulty variant of detect_action_loop: the two windows are not compared
action_loop_unchecked(p, window_size) ==
  IF Len(get_action_pattern(p)) < window_size * 2 THEN NoValue
  ELSE Some(py_from(get_action_pattern(p), -window_size))

\* Player.detect_action_loop
detect_action_loop(p, window_size) ==
  LET pattern == get_action_pattern(p)
  IN IF Len(pattern) < window_size * 2 THEN NoValue
     ELSE LET recent == py_from(pattern, -window_size)
              previous == py_slice(pattern, -window_size * 2, -window_size)
          IN IF recent = previous THEN Some(recent) ELSE NoValue

-----------------------------------------------------------------------------
(* HistoryTracker (src/src/utils.py)                                       *)

s_TEMPORAL_LOOP == <<"T","E","M","P","O","R","A","L","_","L","O","O","P">> \* "TEMPORAL_LOOP"
s_CONTRADICTION == <<"C","O","N","T","R","A","D","I","C","T","I","O","N">> \* "CONTRADICTION"
s_IMPOSSIBLE_STATE == <<"I","M","P","O","S","S","I","B","L","E","_","S","T","A","T","E">> \* "IMPOSSIBLE_STATE"

\* HistoryTracker._setup_default_rules
contradiction_rules ==
  << [action1 |-> <<"t","a","k","e">> (* "take" *), action2 |-> <<"d","r","o","p">> (* "drop" *), same_target |-> TRUE, sequence |-> FALSE],
     [action1 |-> <<"o","p","e","n">> (* "open" *), action2 |-> <<"c","l","o","s","e">> (* "close" *), same_target |-> TRUE, sequence |-> FALSE],
     [action1 |-> <<"g","o"," ","n","o","r","t","h">> (* "go north" *), action2 |-> <<"g","o"," ","s","o","u","t","h">> (* "go south" *), same_target |-> FALSE, sequence |-> TRUE],
     [action1 |-> <<"g","o"," ","e","a","s","t">> (* "go east" *), action2 |-> <<"g","o"," ","w","e","s","t">> (* "go west" *), same_target |-> FALSE, sequence |-> TRUE],
     [action1 |-> <<"a","t","t","a","c","k">> (* "attack" *), action2 |-> <<"t","a","l","k">> (* "talk" *), same_target |-> TRUE, sequence |-> FALSE] >>

\* HistoryTracker()
HistoryTracker == [entries |-> <<>>, state_hashes |-> {}]

\* str(n) for a natural number
RECURSIVE digits(_)
digits(n) ==
  IF n < 10 THEN <<CHARS[4 + n]>>
  ELSE digits(n \div 10) \o <<CHARS[4 + (n % 10)]>>

\* JSON values of the states hashed: a value is tagged with its Python type
JStr(s) == [t |-> "str", v |-> s]
JInt(n) == [t |-> "int", v |-> n]
JList(l) == [t |-> "list", v |-> l]
JNull == [t |-> "null", v |-> 0]

quoted(s) == <<"\"">> \o s \o <<"\"">>

json_value(x) ==
  CASE x.t = "str" -> quoted(x.v)
    [] x.t = "int" -> digits(x.v)
    [] x.t = "list" ->
         <<"[">> \o join(<<",", " ">>, [i \in DOMAIN x.v |-> quoted(x.v[i])]) \o <<"]">>
    [] OTHER -> <<"n", "u", "l", "l">>

\* the items of a dict (<<key, value>> pairs in insertion order) ordered by key
RECURSIVE insert_by_key(_, _)
insert_by_key(item, items) ==
  IF items = <<>> THEN <<item>>
  ELSE IF str_less(item[1], items[1][1]) THEN <<item>> \o items
  ELSE <<items[1]>> \o insert_by_key(item, Tail(items))
\* a faulty variant of sort_keys: the items stay in insertion order
insertion_order(d) == d
RECURSIVE sort_keys(_)
sort_keys(d) ==
  IF d = <<>> THEN <<>>
  ELSE insert_by_key(d[Len(d)], sort_keys(SubSeq(d, 1, Len(d) - 1)))

\* json.dumps(state, sort_keys=True)
json_dumps(state) ==
  LET items == sort_keys(state)
  IN <<"{">>
     \o join(<<",", " ">>,
             [i \in DOMAIN items |->
                quoted(items[i][1]) \o <<":", " ">> \o json_value(items[i][2])])
     \o <<"}">>

\* HistoryTracker._hash_state.  The MD5 digest of a text is identified with the
\* text: two states have the same hash exactly when their JSON texts are equal.
_hash_state(state) == json_dumps(state)

\* a faulty variant of add_entry: the entry is for no node
add_entry_without_node(h, node_id, action, state, metadata) ==
  [entries |-> Append(h.entries,
                      [node_id |-> NoId, action |-> action,
                       state_hash |-> _hash_state(state), metadata |-> metadata]),
   state_hashes |-> h.state_hashes \cup {_hash_state(state)}]

\* HistoryTracker.add_entry: the tracker afterwards
add_entry(h, node_id, action, state, metadata) ==
  LET state_hash == _hash_state(state)
  IN [entries |-> Append(h.entries,
                         [node_id |-> node_id, action |-> action,
                          state_hash |-> state_hash, metadata |-> metadata]),
      state_hashes |-> h.state_hashes \cup {state_hash}]

\* HistoryTracker.clear
clear(h) == [entries |-> <<>>, state_hashes |-> {}]

\* HistoryTracker.to_dict with HistoryEntry.to_dict; order is the iteration
\* order of state_hashes, and timestamps are left out
HistoryTracker_to_dict(h, order) ==
  [entries |-> [i \in DOMAIN h.entries |->
                  [node_id |-> h.entries[i].node_id,
                   action |-> h.entries[i].action,
                   state_hash |-> h.entries[i].state_hash,
                   metadata |-> h.entries[i].metadata]],
   state_hashes |-> list_of(h.state_hashes, order)]

\* a faulty variant of HistoryTracker.from_dict: the hashes are not restored
from_dict_entries_only(data) ==
  [entries |-> data.entries, state_hashes |-> {}]

\* HistoryTracker.from_dict with HistoryEntry.from_dict
HistoryTracker_from_dict(data) ==
  [entries |-> [i \in DOMAIN data.entries |->
                  [node_id |-> data.entries[i].node_id,
                   action |-> data.entries[i].action,
                   state_hash |-> data.entries[i].state_hash,
                   metadata |-> data.entries[i].metadata]],
   state_hashes |-> set_of(data.state_hashes)]

\* HistoryTracker.detect_loop: a 0-based index, or None
detect_loop(h, current_state) ==
  LET current_hash == _hash_state(current_state)
      hits == {i \in DOMAIN h.entries : h.entries[i].state_hash = current_hash}
  IN IF current_hash \in h.state_hashes /\ hits # {}
     THEN Some((CHOOSE i \in hits : \A j \in hits : i <= j) - 1)
     ELSE NoValue

\* the for loop of detect_node_loop, from pattern_length on
RECURSIVE node_loop_from(_, _, _)
node_loop_from(recent_nodes, pattern_length, last_length) ==
  IF pattern_length > last_length THEN NoValue
  ELSE LET pattern == py_from(recent_nodes, -pattern_length)
           previous == py_slice(recent_nodes, -pattern_length * 2, -pattern_length)
       IN IF pattern = previous THEN Some(pattern)
          ELSE node_loop_from(recent_nodes, pattern_length + 1, last_length)

\* a faulty variant of detect_node_loop: the number of entries is not checked
node_loop_unguarded(h, window_size) ==
  node_loop_from([i \in DOMAIN h.entries |-> h.entries[i].node_id], 2,
                 window_size \div 2)

\* HistoryTracker.detect_node_loop
detect_node_loop(h, window_size) ==
  IF Len(h.entries) < window_size THEN NoValue
  ELSE LET tail == py_from(h.entries, -window_size)
           recent_nodes == [i \in DOMAIN tail |-> tail[i].node_id]
       IN node_loop_from(recent_nodes, 2, window_size \div 2)

\* the metadata of an entry: the keys the engine writes, None when absent
Metadata(verb, target) == [verb |-> verb, target |-> target]
NoMetadata == Metadata(None, None)

NoContradiction ==
  [type |-> "None", current_action |-> <<>>, previous_action |-> <<>>,
   target |-> None, rule |-> 0]

\* a faulty variant of scan_entries: the actions are compared with the sides
\* of the rule for equality
RECURSIVE scan_entries_exact(_, _, _, _, _, _)
scan_entries_exact(recent, i, rule_index, action, target, target_lower) ==
  IF i < 1 THEN NoContradiction
  ELSE
    LET rule == contradiction_rules[rule_index]
        entry == recent[i]
        action_lower == lower(action)
        prev_action == lower(entry.action)
        prev_target_raw == entry.metadata.target
        prev_target == IF truthy(prev_target_raw) THEN lower(prev_target_raw)
                       ELSE <<>>
        is_match ==
          \/ action_lower = rule.action1 /\ prev_action = rule.action2
          \/ action_lower = rule.action2 /\ prev_action = rule.action1
    IN IF is_match /\ rule.same_target /\ target_lower # <<>> /\ prev_target # <<>>
       THEN (IF target_lower = prev_target
             THEN [type |-> "contradiction", current_action |-> action,
                   previous_action |-> entry.action, target |-> target,
                   rule |-> rule_index]
             ELSE scan_entries_exact(recent, i - 1, rule_index, action, target, target_lower))
       ELSE IF is_match /\ rule.sequence
       THEN [type |-> "sequence_contradiction", current_action |-> action,
             previous_action |-> entry.action, target |-> None,
             rule |-> rule_index]
       ELSE scan_entries_exact(recent, i - 1, rule_index, action, target, target_lower)

\* the scan of one rule over reversed(self.entries[-20:]), from position i down
RECURSIVE scan_entries(_, _, _, _, _, _)
scan_entries(recent, i, rule_index, action, target, target_lower) ==
  IF i < 1 THEN NoContradiction
  ELSE
    LET rule == contradiction_rules[rule_index]
        entry == recent[i]
        action_lower == lower(action)
        prev_action == lower(entry.action)
        prev_target_raw == entry.metadata.target
        prev_target == IF truthy(prev_target_raw) THEN lower(prev_target_raw)
                       ELSE <<>>
        is_match ==
          \/ startswith(action_lower, rule.action1)
               /\ startswith(prev_action, rule.action2)
          \/ startswith(action_lower, rule.action2)
               /\ startswith(prev_action, rule.action1)
    IN IF is_match /\ rule.same_target /\ target_lower # <<>> /\ prev_target # <<>>
       THEN (IF target_lower = prev_target
             THEN [type |-> "contradiction", current_action |-> action,
                   previous_action |-> entry.action, target |-> target,
                   rule |-> rule_index]
             ELSE scan_entries(recent, i - 1, rule_index, action, target, target_lower))
       ELSE IF is_match /\ rule.sequence
       THEN [type |-> "sequence_contradiction", current_action |-> action,
             previous_action |-> entry.action, target |-> None,
             rule |-> rule_index]
       ELSE scan_entries(recent, i - 1, rule_index, action, target, target_lower)

\* a faulty variant of scan_rules: the scan covers every entry, not the last 20
RECURSIVE scan_rules_unbounded(_, _, _, _)
scan_rules_unbounded(h, rule_index, action, target) ==
  IF rule_index > Len(contradiction_rules) THEN NoContradiction
  ELSE
    LET rule == contradiction_rules[rule_index]
        action_lower == lower(action)
        target_lower == IF truthy(target) THEN lower(target) ELSE <<>>
        found ==
          IF startswith(action_lower, rule.action1)
               \/ startswith(action_lower, rule.action2)
          THEN scan_entries(h.entries, Len(h.entries), rule_index, action,
                            target, target_lower)
          ELSE NoContradiction
    IN IF found.type # "None" THEN found
       ELSE scan_rules_unbounded(h, rule_index + 1, action, target)

\* the loop of detect_contradiction over the rules, from rule_index on
RECURSIVE scan_rules(_, _, _, _)
scan_rules(h, rule_index, action, target) ==
  IF rule_index > Len(contradiction_rules) THEN NoContradiction
  ELSE
    LET rule == contradiction_rules[rule_index]
        action_lower == lower(action)
        target_lower == IF truthy(target) THEN lower(target) ELSE <<>>
        recent == py_from(h.entries, -20)
        found ==
          IF startswith(action_lower, rule.action1)
               \/ startswith(action_lower, rule.action2)
          THEN scan_entries(recent, Len(recent), rule_index, action, target,
                            target_lower)
          ELSE NoContradiction
    IN IF found.type # "None" THEN found
       ELSE scan_rules(h, rule_index + 1, action, target)

\* a faulty variant of detect_contradiction: every entry is scanned
detect_in_all_entries(h, action, target) ==
  scan_rules_unbounded(h, 1, action, target)

\* HistoryTracker.detect_contradiction
detect_contradiction(h, action, target) == scan_rules(h, 1, action, target)

\* Player.set_flag and Player.set_variable
set_flag(p, flag, value) == [p EXCEPT !.flags = dict_set(@, lower(flag), value)]
set_variable(p, name, value) ==
  [p EXCEPT !.variables = dict_set(@, lower(name), value)]

\* PlayerState.to_dict and PlayerState.from_dict; order is the iteration
\* order of the sets of locations
PlayerState_to_dict(state, order) ==
  [location |-> state.location, inventory |-> state.inventory,
   visited_locations |-> list_of(state.visited_locations, order),
   choice_count |-> state.choice_count]
PlayerState_from_dict(data) ==
  [location |-> data.location, inventory |-> data.inventory,
   visited_locations |-> set_of(data.visited_locations),
   choice_count |-> data.choice_count]

\* Player.to_dict
Player_to_dict(p, order) ==
  [inventory |-> p.inventory,
   current_location |-> p.current_location,
   visited_locations |-> list_of(p.visited_locations, order),
   choice_history |-> p.choice_history,
   action_history |-> p.action_history,
   state_history |-> [i \in DOMAIN p.state_history |->
                        PlayerState_to_dict(p.state_history[i], order)],
   flags |-> p.flags,
   variables |-> p.variables]

\* a faulty variant of Player.from_dict: the locations visited are dropped
from_dict_at_location(data) ==
  [inventory |-> data.inventory, current_location |-> data.current_location,
   visited_locations |-> {}, choice_history |-> data.choice_history,
   action_history |-> data.action_history,
   state_history |-> [i \in DOMAIN data.state_history |->
                        PlayerState_from_dict(data.state_history[i])],
   flags |-> data.flags, variables |-> data.variables]

\* Player.from_dict: the constructor, __post_init__ (the current location is
\* visited, a snapshot is saved), then state_history is replaced
Player_from_dict(data) ==
  LET constructed ==
        _save_state([inventory |-> data.inventory,
                     current_location |-> data.current_location,
                     visited_locations |-> set_of(data.visited_locations)
                                             \cup {data.current_location},
                     choice_history |-> data.choice_history,
                     action_history |-> data.action_history,
                     state_history |-> <<>>,
                     flags |-> data.flags,
                     variables |-> data.variables])
  IN [constructed EXCEPT !.state_history =
        [i \in DOMAIN data.state_history |->
           PlayerState_from_dict(data.state_history[i])]]

-----------------------------------------------------------------------------
(* StoryNode and StoryGraph (src/src/story_node.py)                        *)

\* Choice(text, target_node_id, action); condition is None and consequences
\* is empty in every Choice the program constructs
Choice(text, target_node_id, action) ==
  [text |-> text, target_node_id |-> target_node_id, action |-> action]

\* StoryNode(...): the fields the operations of the model read or write
StoryNode(id, text, node_type, location, previous_node_ids, choices) ==
  [id |-> id, text |-> text, node_type |-> node_type, choices |-> choices,
   previous_node_ids |-> previous_node_ids, is_rewritten |-> FALSE,
   original_text |-> <<"<None>">>, rewrite_count |-> 0, location |-> location,
   grants_items |-> <<>>, rewrite_history |-> <<>>]

\* StoryNode.add_choice
add_choice(node, choice) == [node EXCEPT !.choices = Append(@, choice)]

\* a faulty variant of rewrite: every rewrite saves the text it replaces
rewrite_saves_last(node, new_text, reason) ==
  [node EXCEPT
     !.original_text = node.text,
     !.text = new_text,
     !.is_rewritten = TRUE,
     !.rewrite_count = @ + 1,
     !.rewrite_history =
        Append(@, [reason |-> reason, rewrite_number |-> node.rewrite_count + 1])]

\* StoryNode.rewrite
rewrite(node, new_text, reason) ==
  [node EXCEPT
     !.original_text = IF ~node.is_rewritten THEN node.text ELSE @,
     !.text = new_text,
     !.is_rewritten = TRUE,
     !.rewrite_count = @ + 1,
     !.rewrite_history =
        Append(@, [reason |-> reason, rewrite_number |-> node.rewrite_count + 1])]

\* Choice.to_dict and Choice.from_dict
Choice_to_dict(choice) ==
  [text |-> choice.text, target_node_id |-> choice.target_node_id,
   action |-> choice.action]
Choice_from_dict(data) ==
  Choice(data.text, data.target_node_id, data.action)

\* StoryNode.to_dict and StoryNode.from_dict; the rewrite history is kept
\* under metadata
StoryNode_to_dict(node) ==
  [id |-> node.id, text |-> node.text, node_type |-> node.node_type,
   choices |-> [i \in DOMAIN node.choices |-> Choice_to_dict(node.choices[i])],
   previous_node_ids |-> node.previous_node_ids,
   metadata |-> [rewrite_history |-> node.rewrite_history],
   is_rewritten |-> node.is_rewritten, original_text |-> node.original_text,
   rewrite_count |-> node.rewrite_count, location |-> node.location,
   grants_items |-> node.grants_items]
StoryNode_from_dict(data) ==
  [StoryNode(data.id, data.text, data.node_type, data.location,
             data.previous_node_ids,
             [i \in DOMAIN data.choices |-> Choice_from_dict(data.choices[i])])
   EXCEPT !.is_rewritten = data.is_rewritten,
          !.original_text = data.original_text,
          !.rewrite_count = data.rewrite_count,
          !.grants_items = data.grants_items,
          !.rewrite_history = data.metadata.rewrite_history]

\* StoryGraph(): nodes and root_id
StoryGraph == [nodes |-> <<>>, root_id |-> NoId]

\* node_id in self.nodes
has_node(g, node_id) == \E i \in DOMAIN g.nodes : g.nodes[i].id = node_id
node_index(g, node_id) == CHOOSE i \in DOMAIN g.nodes : g.nodes[i].id = node_id

\* self.nodes[node_id], for an id in the graph
node_at(g, node_id) == g.nodes[node_index(g, node_id)]

\* a faulty variant of add_node: the node added last is the root
root_follows_last(g, node) ==
  [nodes |-> IF has_node(g, node.id)
             THEN [g.nodes EXCEPT ![node_index(g, node.id)] = node]
             ELSE Append(g.nodes, node),
   root_id |-> node.id]

\* a variant of add_node: a node added to a graph without nodes is the root
root_when_empty(g, node) ==
  [nodes |-> Append(SelectSeq(g.nodes, LAMBDA n : n.id # node.id), node),
   root_id |-> IF g.nodes = <<>> THEN node.id ELSE g.root_id]

\* StoryGraph.add_node
add_node(g, node) ==
  [nodes |-> IF has_node(g, node.id)
             THEN [g.nodes EXCEPT ![node_index(g, node.id)] = node]
             ELSE Append(g.nodes, node),
   root_id |-> IF g.root_id = NoId THEN node.id ELSE g.root_id]

\* StoryGraph.remove_node: the value returned, and the graph afterwards
remove_node_returns(g, node_id) == has_node(g, node_id)
remove_node(g, node_id) ==
  IF has_node(g, node_id)
  THEN LET i == node_index(g, node_id)
       IN [g EXCEPT !.nodes = SubSeq(@, 1, i - 1) \o SubSeq(@, i + 1, Len(@))]
  ELSE g

\* StoryGraph.to_dict: the node dicts in the insertion order of nodes
StoryGraph_to_dict(g) ==
  [nodes |-> [i \in DOMAIN g.nodes |-> StoryNode_to_dict(g.nodes[i])],
   root_id |-> g.root_id]

\* StoryGraph.from_dict: the nodes are added one by one to a new graph, then
\* root_id is assigned
RECURSIVE add_nodes_from(_, _, _)
add_nodes_from(g, node_dicts, i) ==
  IF i > Len(node_dicts) THEN g
  ELSE add_nodes_from(add_node(g, StoryNode_from_dict(node_dicts[i])),
                      node_dicts, i + 1)
StoryGraph_from_dict(data) ==
  [add_nodes_from(StoryGraph, data.nodes, 1) EXCEPT !.root_id = data.root_id]

\* the outcome of a lookup self.nodes[current_id] that raises
KeyError == [kind |-> "KeyError", value |-> <<>>]

\* the while loop of find_path (bfs) and its for loop over the choices of the
\* node popped (bfs_choices); queue holds [id, path] pairs
RECURSIVE bfs(_, _, _, _)
RECURSIVE bfs_choices(_, _, _, _, _, _, _)
bfs_choices(g, end_id, visited, queue, path, choices, i) ==
  IF i > Len(choices) THEN bfs(g, end_id, visited, queue)
  ELSE
    LET next == choices[i].target_node_id
    IN IF next # NoId /\ next \notin visited
       THEN (IF next = end_id THEN Some(Append(path, next))
             ELSE bfs_choices(g, end_id, visited \cup {next},
                              Append(queue, [id |-> next, path |-> Append(path, next)]),
                              path, choices, i + 1))
       ELSE bfs_choices(g, end_id, visited, queue, path, choices, i + 1)
bfs(g, end_id, visited, queue) ==
  IF queue = <<>> THEN NoValue
  ELSE IF ~has_node(g, queue[1].id) THEN KeyError
  ELSE bfs_choices(g, end_id, visited, Tail(queue), queue[1].path,
                   node_at(g, queue[1].id).choices, 1)

\* StoryGraph.find_path
find_path(g, start_id, end_id) ==
  IF ~has_node(g, start_id) \/ ~has_node(g, end_id) THEN NoValue
  ELSE IF start_id = end_id THEN Some(<<start_id>>)
  ELSE bfs(g, end_id, {start_id}, <<[id |-> start_id, path |-> <<start_id>>]>>)

\* the closure dfs of detect_cycles (dfs) and its for loop over the choices of
\* the node (dfs_choices); st holds visited, rec_stack and cycles, which the
\* closure shares with detect_cycles, and path is the copy the call received
\* with node_id appended. A target on the recursion stack is an ancestor or
\* the node itself, so path.index finds it.
RECURSIVE dfs(_, _, _, _)
RECURSIVE dfs_choices(_, _, _, _, _)
\* a faulty variant of dfs_choices: the target of the back edge is not
\* appended to the cycle
RECURSIVE dfs_choices_unclosed(_, _, _, _, _)
dfs_choices_unclosed(g, path, choices, i, st) ==
  IF i > Len(choices) THEN st
  ELSE LET next == choices[i].target_node_id
       IN dfs_choices_unclosed(g, path, choices, i + 1,
            IF next = NoId THEN st
            ELSE IF next \notin st.visited THEN dfs(g, next, path, st)
            ELSE IF next \in st.rec_stack
            THEN LET cycle_start == CHOOSE k \in DOMAIN path : /\ path[k] = next
                                                               /\ \A j \in 1..(k - 1) : path[j] # next
                 IN [st EXCEPT !.cycles = Append(@, SubSeq(path, cycle_start, Len(path)))]
            ELSE st)

dfs_choices(g, path, choices, i, st) ==
  IF i > Len(choices) THEN st
  ELSE
    LET next == choices[i].target_node_id
    IN dfs_choices(g, path, choices, i + 1,
         IF next = NoId THEN st
         ELSE IF next \notin st.visited THEN dfs(g, next, path, st)
         ELSE IF next \in st.rec_stack
         THEN LET cycle_start == CHOOSE k \in DOMAIN path :
                                   /\ path[k] = next
                                   /\ \A j \in 1..(k - 1) : path[j] # next
              IN [st EXCEPT !.cycles =
                    Append(@, Append(SubSeq(path, cycle_start, Len(path)), next))]
         ELSE st)
dfs(g, node_id, path, st) ==
  LET entered == [st EXCEPT !.visited = @ \cup {node_id},
                            !.rec_stack = @ \cup {node_id}]
      left == IF has_node(g, node_id)
              THEN dfs_choices(g, Append(path, node_id),
                               node_at(g, node_id).choices, 1, entered)
              ELSE entered
  IN [left EXCEPT !.rec_stack = @ \ {node_id}]

\* the for loop of detect_cycles over the node ids, in insertion order
RECURSIVE cycles_from(_, _, _)
cycles_from(g, i, st) ==
  IF i > Len(g.nodes) THEN st
  ELSE cycles_from(g, i + 1,
                   IF g.nodes[i].id \notin st.visited
                   THEN dfs(g, g.nodes[i].id, <<>>, st)
                   ELSE st)

\* a faulty variant of detect_cycles: no cycle is ever reported
no_cycles(g) == <<>>

\* StoryGraph.detect_cycles
detect_cycles(g) ==
  cycles_from(g, 1, [visited |-> {}, rec_stack |-> {}, cycles |-> <<>>]).cycles

-----------------------------------------------------------------------------
(* StoryGenerator and InfiniteStoryLoop (src/src/story_loop.py)            *)

\* Paradox(...); metadata holds the keys the detectors write
Paradox(paradox_type, affected_nodes, trigger_action, severity, metadata) ==
  [paradox_type |-> paradox_type, affected_nodes |-> affected_nodes,
   trigger_action |-> trigger_action, severity |-> severity,
   metadata |-> metadata]
NoParadoxMetadata ==
  [loop_pattern |-> <<>>, contradiction |-> NoContradiction,
   missing_item |-> None]
\* _detect_paradox returning None
NoParadox == Paradox(None, <<>>, <<>>, 0, NoParadoxMetadata)

\* the choices _initialize_story gives the start node
start_choices ==
  << Choice(<<"W","a","l","k"," ","t","o","w","a","r","d","s"," ","t","h","e"," ","l","i","g","h","t">>, \* "Walk towards the light"
            NoId, <<"g","o"," ","n","o","r","t","h">>), \* "go north"
     Choice(<<"F","o","l","l","o","w"," ","t","h","e"," ","s","h","a","d","o","w","s">>, \* "Follow the shadows"
            NoId, <<"g","o"," ","s","o","u","t","h">>), \* "go south"
     Choice(<<"L","i","s","t","e","n"," ","t","o"," ","t","h","e"," ","w","h","i","s","p","e","r","s">>, \* "Listen to the whispers"
            NoId, <<"l","i","s","t","e","n">>), \* "listen"
     Choice(<<"Q","u","e","s","t","i","o","n"," ","y","o","u","r"," ","e","x","i","s","t","e","n","c","e">>, \* "Question your existence"
            NoId, <<"t","h","i","n","k">>) >> \* "think"

\* the outcomes of random.sample(directions, random.randint(2, 4)) the model
\* explores: one of the smallest and one of the largest size
SampledDirections ==
  << <<<<"n","o","r","t","h">>, <<"s","o","u","t","h">>>>,
     <<<<"w","e","s","t">>, <<"n","o","r","t","h">>, <<"s","o","u","t","h">>, <<"e","a","s","t">>>> >>


\* a faulty variant of generate_choices: the choices are the directions and
\* their target is the start node
choices_to_start(location, available_dirs) ==
  [i \in DOMAIN available_dirs |->
     Choice(<<"G", "o", " ">> \o available_dirs[i], 1,
            <<"g", "o", " ">> \o available_dirs[i])]

\* StoryGenerator.generate_choices, given the directions random.sample drew
generate_choices(location, available_dirs) ==
  [i \in DOMAIN available_dirs |->
     Choice(<<"G", "o", " ">> \o available_dirs[i], NoId,
            <<"g", "o", " ">> \o available_dirs[i])]
  \o (IF contains(location, <<"l","i","b","r","a","r","y">> (* "library" *)) THEN <<Choice(<<"R","e","a","d"," ","a"," ","b","o","o","k">> (* "Read a book" *),
             NoId, <<"r","e","a","d"," ","b","o","o","k">> (* "read book" *))>>
      ELSE IF contains(location, <<"m","a","r","k","e","t">> (* "market" *)) THEN <<Choice(<<"B","r","o","w","s","e"," ","t","h","e"," ","w","a","r","e","s">> (* "Browse the wares" *),
             NoId, <<"b","r","o","w","s","e">> (* "browse" *))>>
      ELSE IF contains(location, <<"m","i","r","r","o","r">> (* "mirror" *)) THEN <<Choice(<<"T","o","u","c","h"," ","t","h","e"," ","m","i","r","r","o","r">> (* "Touch the mirror" *),
             NoId, <<"t","o","u","c","h"," ","m","i","r","r","o","r">> (* "touch mirror" *))>>
      ELSE <<>>)
  \o <<Choice(<<"L","o","o","k"," ","a","r","o","u","n","d">> (* "Look around" *),
             NoId, <<"l","o","o","k">> (* "look" *))>>


\* a faulty variant of _generate_post_paradox_choices: no choice depends on
\* the type of the paradox
post_paradox_choices_plain(p) ==
  <<Choice(<<"A","c","c","e","p","t"," ","t","h","e"," ","n","e","w"," ","r","e","a","l","i","t","y">> (* "Accept the new reality" *),
           NoId, <<"a","c","c","e","p","t">> (* "accept" *)),
    Choice(<<"Q","u","e","s","t","i","o","n"," ","w","h","a","t"," ","j","u","s","t"," ","h","a","p","p","e","n","e","d">> (* "Question what just happened" *),
           NoId, <<"q","u","e","s","t","i","o","n">> (* "question" *)),
    Choice(<<"M","o","v","e"," ","o","n">> (* "Move on" *),
           NoId, <<"g","o"," ","f","o","r","w","a","r","d">> (* "go forward" *))>>

\* InfiniteStoryLoop._generate_post_paradox_choices
_generate_post_paradox_choices(p) ==
  <<Choice(<<"A","c","c","e","p","t"," ","t","h","e"," ","n","e","w"," ","r","e","a","l","i","t","y">> (* "Accept the new reality" *),
             NoId, <<"a","c","c","e","p","t">> (* "accept" *)), Choice(<<"Q","u","e","s","t","i","o","n"," ","w","h","a","t"," ","j","u","s","t"," ","h","a","p","p","e","n","e","d">> (* "Question what just happened" *),
             NoId, <<"q","u","e","s","t","i","o","n">> (* "question" *))>>
  \o (IF p.paradox_type = s_TEMPORAL_LOOP THEN <<Choice(<<"T","r","y"," ","t","o"," ","b","r","e","a","k"," ","t","h","e"," ","c","y","c","l","e">> (* "Try to break the cycle" *),
             NoId, <<"b","r","e","a","k"," ","c","y","c","l","e">> (* "break cycle" *))>>
      ELSE IF p.paradox_type = s_CONTRADICTION THEN <<Choice(<<"E","m","b","r","a","c","e"," ","t","h","e"," ","c","o","n","t","r","a","d","i","c","t","i","o","n">> (* "Embrace the contradiction" *),
             NoId, <<"e","m","b","r","a","c","e">> (* "embrace" *))>>
      ELSE <<>>)
  \o <<Choice(<<"M","o","v","e"," ","o","n">> (* "Move on" *),
             NoId, <<"g","o"," ","f","o","r","w","a","r","d">> (* "go forward" *))>>

\* the engine: the fields of InfiniteStoryLoop
Engine ==
  [story_graph |-> [nodes |-> nodes, root_id |-> root_id],
   current_node |-> current_node, player |-> player, history |-> history,
   paradox_count |-> paradox_count, rewrite_count |-> rewrite_count,
   next_id |-> next_id]

\* InfiniteStoryLoop.to_dict; the orders are the iteration orders of the sets
\* of locations and of state_hashes
to_dict(e, location_order, hash_order) ==
  [story_graph |-> StoryGraph_to_dict(e.story_graph),
   current_node_id |-> e.current_node,
   player |-> Player_to_dict(e.player, location_order),
   history |-> HistoryTracker_to_dict(e.history, hash_order),
   paradox_count |-> e.paradox_count,
   rewrite_count |-> e.rewrite_count]

\* a faulty variant of from_dict: the current node is not restored
from_dict_without_current(data, drawn) ==
  [story_graph |-> StoryGraph_from_dict(data.story_graph),
   current_node |-> NoId,
   player |-> Player_from_dict(data.player),
   history |-> HistoryTracker_from_dict(data.history),
   paradox_count |-> data.paradox_count,
   rewrite_count |-> data.rewrite_count,
   next_id |-> drawn]

\* InfiniteStoryLoop.from_dict; drawn is the number of node ids drawn so far,
\* which a restore does not change
from_dict(data, drawn) ==
  LET story_graph == StoryGraph_from_dict(data.story_graph)
  IN [story_graph |-> story_graph,
      current_node |-> IF data.current_node_id # NoId
                          /\ has_node(story_graph, data.current_node_id)
                       THEN data.current_node_id
                       ELSE NoId,
      player |-> Player_from_dict(data.player),
      history |-> HistoryTracker_from_dict(data.history),
      paradox_count |-> data.paradox_count,
      rewrite_count |-> data.rewrite_count,
      next_id |-> drawn]

\* InfiniteStoryLoop._get_state_snapshot
_get_state_snapshot(e) ==
  << <<<<"l","o","c","a","t","i","o","n">> (* "location" *), JStr(e.player.current_location)>>,
     <<<<"i","n","v","e","n","t","o","r","y">> (* "inventory" *), JList(sorted(e.player.inventory))>>,
     <<<<"n","o","d","e","_","i","d">> (* "node_id" *), IF e.current_node # NoId THEN JStr(digits(e.current_node))
                  ELSE JNull>>,
     <<<<"c","h","o","i","c","e","_","c","o","u","n","t">> (* "choice_count" *), JInt(Len(e.player.choice_history))>> >>

\* the action text _detect_paradox passes to detect_contradiction:
\* f"{verb} {target or ''}".strip()
command_action(command) ==
  strip(fmt(command.verb) \o <<" ">>
        \o (IF truthy(command.target) THEN command.target ELSE <<>>))

\* faulty variants of _detect_paradox: one that never reports, and one that
\* looks at the item use before the loops and the contradiction
detect_nothing(e, command) == NoParadox
detect_item_first(e, command) ==
  LET action_loop == detect_action_loop(e.player, 5)
      node_loop == detect_node_loop(e.history, 10)
      contradiction ==
        detect_contradiction(e.history, command_action(command), command.target)
  IN IF command.verb = s_use /\ truthy(command.target)
        /\ ~has_item(e.player, command.target)
     THEN Paradox(s_IMPOSSIBLE_STATE, <<>>, command.original, 5,
                  [NoParadoxMetadata EXCEPT !.missing_item = command.target])
     ELSE IF action_loop.kind = "value" /\ action_loop.value # <<>>
     THEN Paradox(s_TEMPORAL_LOOP, <<>>, command.original, 6,
                  [NoParadoxMetadata EXCEPT !.loop_pattern = action_loop.value])
     ELSE IF node_loop.kind = "value" /\ node_loop.value # <<>>
     THEN Paradox(s_TEMPORAL_LOOP, node_loop.value, command.original, 7,
                  NoParadoxMetadata)
     ELSE IF contradiction.type # "None"
     THEN Paradox(s_CONTRADICTION, <<>>, command.original, 8,
                  [NoParadoxMetadata EXCEPT !.contradiction = contradiction])
     ELSE NoParadox

\* InfiniteStoryLoop._detect_paradox
_detect_paradox(e, command) ==
  LET action_loop == detect_action_loop(e.player, 5)
      node_loop == detect_node_loop(e.history, 10)
      contradiction ==
        detect_contradiction(e.history, command_action(command), command.target)
  IN IF action_loop.kind = "value" /\ action_loop.value # <<>>
     THEN Paradox(s_TEMPORAL_LOOP, <<>>, command.original, 6,
                  [NoParadoxMetadata EXCEPT !.loop_pattern = action_loop.value])
     ELSE IF node_loop.kind = "value" /\ node_loop.value # <<>>
     THEN Paradox(s_TEMPORAL_LOOP, node_loop.value, command.original, 7,
                  NoParadoxMetadata)
     ELSE IF contradiction.type # "None"
     THEN Paradox(s_CONTRADICTION, <<>>, command.original, 8,
                  [NoParadoxMetadata EXCEPT !.contradiction = contradiction])
     ELSE IF command.verb = s_use /\ truthy(command.target)
             /\ ~has_item(e.player, command.target)
     THEN Paradox(s_IMPOSSIBLE_STATE, <<>>, command.original, 5,
                  [NoParadoxMetadata EXCEPT !.missing_item = command.target])
     ELSE NoParadox

\* a faulty variant of _rewrite_node: the engine does not count the rewrite
rewrite_uncounted(e, node_id, p) ==
  LET node == node_at(e.story_graph, node_id)
  IN [e EXCEPT
        !.story_graph.nodes[node_index(e.story_graph, node_id)] =
           rewrite(node, Append(node.text, "[The story adjusts itself...]"),
                   p.paradox_type)]

\* InfiniteStoryLoop._rewrite_node: the engine afterwards
_rewrite_node(e, node_id, p) ==
  LET node == node_at(e.story_graph, node_id)
      annotation ==
        IF p.paradox_type = s_TEMPORAL_LOOP THEN "[The narrative shifts subtly...]"
        ELSE IF p.paradox_type = s_CONTRADICTION THEN "[Reality rewrites itself...]"
        ELSE "[The story adjusts itself...]"
  IN [e EXCEPT
        !.rewrite_count = @ + 1,
        !.story_graph.nodes[node_index(e.story_graph, node_id)] =
           rewrite(node, Append(node.text, annotation), p.paradox_type)]

\* the loop of _handle_paradox over paradox.affected_nodes, from position i on
RECURSIVE rewrite_affected(_, _, _)
rewrite_affected(e, p, i) ==
  IF i > Len(p.affected_nodes) THEN e
  ELSE IF has_node(e.story_graph, p.affected_nodes[i])
  THEN rewrite_affected(_rewrite_node(e, p.affected_nodes[i], p), p, i + 1)
  ELSE rewrite_affected(e, p, i + 1)

\* the dict a process_input call returns; text is left out
Response(type, choices, paradox_type, severity, location) ==
  [type |-> type, choices |-> choices, paradox_type |-> paradox_type,
   severity |-> severity, location |-> location]
NoResponse == Response("None", <<>>, None, 0, None)

choice_texts(choices) == [i \in DOMAIN choices |-> choices[i].text]

\* InfiniteStoryLoop._handle_paradox: the engine afterwards
\* a faulty variant of _handle_paradox: the paradox is counted, no
\* resolution node is created
handle_in_place(e, p, command) == [e EXCEPT !.paradox_count = @ + 1]

\* a faulty variant of _handle_paradox: the resolution node is not linked to
\* the node that was current
handle_unlinked(e, p, command) ==
  LET e1 == [e EXCEPT !.paradox_count = @ + 1]
      e2 == rewrite_affected(e1, p, 1)
      resolution_node ==
        StoryNode(e.next_id + 1, <<"paradox_resolution">>, "PARADOX",
                  e.player.current_location, <<>>,
                  _generate_post_paradox_choices(p))
      e3 == [e2 EXCEPT !.next_id = @ + 1,
                       !.story_graph = add_node(@, resolution_node),
                       !.current_node = resolution_node.id]
  IN [e3 EXCEPT !.history =
        add_entry(@, resolution_node.id, <<"p","a","r","a","d","o","x","_","r","e","s","o","l","u","t","i","o","n",":">> (* "paradox_resolution:" *) \o p.paradox_type,
                  _get_state_snapshot(e3), NoMetadata)]

\* a faulty variant of _handle_paradox: the player is moved to where it is,
\* which saves a snapshot
handle_and_move(e, p, command) ==
  LET e1 == [e EXCEPT !.paradox_count = @ + 1,
                      !.player = move_to(@, e.player.current_location)]
      e2 == rewrite_affected(e1, p, 1)
      resolution_node ==
        StoryNode(e.next_id + 1, <<"paradox_resolution">>, "PARADOX",
                  e.player.current_location,
                  IF e.current_node # NoId THEN <<e.current_node>> ELSE <<>>,
                  _generate_post_paradox_choices(p))
      e3 == [e2 EXCEPT !.next_id = @ + 1,
                       !.story_graph = add_node(@, resolution_node),
                       !.current_node = resolution_node.id]
  IN [e3 EXCEPT !.history =
        add_entry(@, resolution_node.id, <<"p","a","r","a","d","o","x","_","r","e","s","o","l","u","t","i","o","n",":">> (* "paradox_resolution:" *) \o p.paradox_type,
                  _get_state_snapshot(e3), NoMetadata)]

\* a faulty variant of _handle_paradox: the command is recorded as a choice
\* of the player
handle_and_record(e, p, command) ==
  LET e1 == [e EXCEPT !.paradox_count = @ + 1,
                      !.player = record_choice(@, e.current_node, command)]
      e2 == rewrite_affected(e1, p, 1)
      resolution_node ==
        StoryNode(e.next_id + 1, <<"paradox_resolution">>, "PARADOX",
                  e.player.current_location,
                  IF e.current_node # NoId THEN <<e.current_node>> ELSE <<>>,
                  _generate_post_paradox_choices(p))
      e3 == [e2 EXCEPT !.next_id = @ + 1,
                       !.story_graph = add_node(@, resolution_node),
                       !.current_node = resolution_node.id]
  IN [e3 EXCEPT !.history =
        add_entry(@, resolution_node.id, <<"p","a","r","a","d","o","x","_","r","e","s","o","l","u","t","i","o","n",":">> (* "paradox_resolution:" *) \o p.paradox_type,
                  _get_state_snapshot(e3), NoMetadata)]

_handle_paradox(e, p, command) ==
  LET e1 == [e EXCEPT !.paradox_count = @ + 1]
      e2 == rewrite_affected(e1, p, 1)
      resolution_node ==
        StoryNode(e.next_id + 1, <<"paradox_resolution">>, "PARADOX",
                  e.player.current_location,
                  IF e.current_node # NoId THEN <<e.current_node>> ELSE <<>>,
                  _generate_post_paradox_choices(p))
      e3 == [e2 EXCEPT !.next_id = @ + 1,
                       !.story_graph = add_node(@, resolution_node),
                       !.current_node = resolution_node.id]
  IN [e3 EXCEPT !.history =
        add_entry(@, resolution_node.id, <<"p","a","r","a","d","o","x","_","r","e","s","o","l","u","t","i","o","n",":">> (* "paradox_resolution:" *) \o p.paradox_type,
                  _get_state_snapshot(e3), NoMetadata)]

\* a faulty variant of location_candidates: every direction leads anywhere
candidates_anywhere(direction) == all_locations

\* the list random.choice draws the new location from
location_candidates(direction) ==
  IF \E k \in DOMAIN location_map : location_map[k].key = direction
  THEN location_map[CHOOSE k \in DOMAIN location_map :
                      location_map[k].key = direction].vals
  ELSE all_locations

\* the locations new_location of _generate_next_node can be
new_locations(e, command) ==
  IF command.verb = s_go
  THEN LET candidates == location_candidates(get_direction(command.target))
       IN {candidates[i] : i \in DOMAIN candidates}
  ELSE {e.player.current_location}

\* a faulty variant of _generate_next_node: the node takes the id of the
\* current node
generate_at_current(e, command, rnd) ==
  StoryNode(e.current_node, <<"story">>, "NARRATIVE", rnd.location, <<>>,
            generate_choices(rnd.location, rnd.directions))

\* InfiniteStoryLoop._generate_next_node, given what the random source drew:
\* rnd.location, rnd.directions and rnd.grant (an item, or None when
\* random.random() >= 0.2)
_generate_next_node(e, command, rnd) ==
  LET node == StoryNode(e.next_id + 1, <<"story">>, "NARRATIVE", rnd.location,
                        <<>>, generate_choices(rnd.location, rnd.directions))
  IN IF rnd.grant # None
     THEN [node EXCEPT !.grants_items = Append(@, rnd.grant),
                       !.text = Append(@, "You notice something interesting and pick it up.")]
     ELSE node

\* the loop of _advance_story over next_node.grants_items, from position i on
RECURSIVE grant_items(_, _, _)
grant_items(p, items, i) ==
  IF i > Len(items) THEN p
  ELSE grant_items(add_item(p, items[i]), items, i + 1)

\* a faulty variant of _advance_story: the choice is recorded after the new
\* node became the current one
advance_then_record(e, command, rnd) ==
  LET generated == _generate_next_node(e, command, rnd)
      next_node ==
        IF e.current_node # NoId
        THEN [generated EXCEPT !.previous_node_ids = Append(@, e.current_node)]
        ELSE generated
      e2 == [e EXCEPT !.next_id = @ + 1,
                      !.story_graph = add_node(@, next_node),
                      !.current_node = next_node.id,
                      !.player = grant_items(move_to(record_choice(@, next_node.id, command),
                                                     next_node.location),
                                             next_node.grants_items, 1)]
  IN [e2 EXCEPT !.history =
        add_entry(@, next_node.id, command.original, _get_state_snapshot(e2),
                  Metadata(command.verb, command.target))]

\* a faulty variant of _advance_story: the history entry has the command in
\* canonical form as its action, not the text of the input
advance_canonical(e, command, rnd) ==
  LET e1 == [e EXCEPT !.player = record_choice(@, e.current_node, command)]
      generated == _generate_next_node(e1, command, rnd)
      next_node ==
        IF e1.current_node # NoId
        THEN [generated EXCEPT !.previous_node_ids = Append(@, e1.current_node)]
        ELSE generated
      e2 == [e1 EXCEPT !.next_id = @ + 1,
                       !.story_graph = add_node(@, next_node),
                       !.current_node = next_node.id,
                       !.player = grant_items(move_to(@, next_node.location),
                                              next_node.grants_items, 1)]
  IN [e2 EXCEPT !.history =
        add_entry(@, next_node.id, command_action(command), _get_state_snapshot(e2),
                  Metadata(command.verb, command.target))]

\* InfiniteStoryLoop._advance_story: the engine afterwards
_advance_story(e, command, rnd) ==
  LET e1 == [e EXCEPT !.player = record_choice(@, e.current_node, command)]
      generated == _generate_next_node(e1, command, rnd)
      next_node ==
        IF e1.current_node # NoId
        THEN [generated EXCEPT !.previous_node_ids = Append(@, e1.current_node)]
        ELSE generated
      e2 == [e1 EXCEPT !.next_id = @ + 1,
                       !.story_graph = add_node(@, next_node),
                       !.current_node = next_node.id,
                       !.player = grant_items(move_to(@, next_node.location),
                                              next_node.grants_items, 1)]
  IN [e2 EXCEPT !.history =
        add_entry(@, next_node.id, command.original, _get_state_snapshot(e2),
                  Metadata(command.verb, command.target))]

\* a faulty variant of system_response_type: one type for every command
always_system(verb) == "system"

\* InfiniteStoryLoop._handle_system_command: the type of the response
system_response_type(verb) ==
  IF verb = VERBS[10].key THEN "system"       \* help
  ELSE IF verb = VERBS[11].key THEN "system"  \* status
  ELSE IF verb = VERBS[12].key THEN "quit"    \* quit
  ELSE IF verb = VERBS[15].key THEN "system"  \* map
  ELSE IF verb = VERBS[13].key THEN "save"    \* save
  ELSE IF verb = VERBS[14].key THEN "load"    \* load
  ELSE "error"

-----------------------------------------------------------------------------
(* The engine as a state machine                                           *)

\* the number of process_input calls that are not system commands
MaxSteps == 2
\* the number of leading advancement steps whose random draws are explored;
\* a later advancement takes the first outcome of each draw
RandomDepth == 1
\* test_paradox_handling_increments_count: rounds of "go north", "go south"
AltRounds == 12

\* inputs that are system commands
SystemInputs ==
  << <<"h","e","l","p">>, \* "help"
     <<"?">>, \* "?"
     <<"i">>, \* "i"
     <<"q">>, \* "q"
     <<"s","a","v","e">>, \* "save"
     <<"r","e","s","t","o","r","e">>, \* "restore"
     <<"m","a","p">> >> \* "map"

\* inputs that are not
StoryInputs ==
  << <<"g","o"," ","n","o","r","t","h">>, \* "go north"
     <<"g","o"," ","s","o","u","t","h">>, \* "go south"
     <<" ","l","o","o","k"," ">>, \* " look ", typed with blanks around it
     <<"t","a","k","e"," ","s","w","o","r","d">>, \* "take sword"
     <<"d","r","o","p"," ","s","w","o","r","d">>, \* "drop sword"
     <<"u","s","e"," ","s","t","r","a","n","g","e"," ","k","e","y">>, \* "use strange key"
     <<"U","s","e"," ","t","h","e"," ","L","a","m","p">> >> \* "Use the Lamp"

Inputs == {SystemInputs[i] : i \in DOMAIN SystemInputs}
            \cup {StoryInputs[i] : i \in DOMAIN StoryInputs}

\* inputs that name no direction, an unmapped direction, or reach a verb
\* through an alias or after a leading word
WordedInputs ==
  <<
     <<"g","o">>, \* "go"
     <<"g","o"," ","n","e">>, \* "go ne"
     <<"w","a","l","k"," ","w","e","s","t">>, \* "walk west"
     <<"g","r","a","b"," ","s","w","o","r","d">>, \* "grab sword"
     <<"p","l","e","a","s","e"," ","t","a","k","e"," ","s","w","o","r","d">>, \* "please take sword"
     <<"t","a","k","e"," ","s","w","o","r","d">>, \* "take sword"
     <<"d","i","s","c","a","r","d"," ","s","w","o","r","d">>, \* "discard sword"
     <<"l","o","o","k">> >> \* "look"

\* CommandParser.parse of each input
parsed ==
  [raw_input \in Inputs \cup {WordedInputs[i] : i \in DOMAIN WordedInputs} |->
     parse(raw_input)]

\* what the random source draws in one _advance_story call: the location
\* (random.choice), the directions (random.sample) and the item granted
\* (random.random() < 0.2, then random.choice), each draw varied alone from
\* the first outcome
random_outcomes(e, command) ==
  LET locations == new_locations(e, command)
      first_location ==
        IF command.verb = s_go
        THEN location_candidates(get_direction(command.target))[1]
        ELSE e.player.current_location
      first == [location |-> first_location,
                directions |-> SampledDirections[1], grant |-> None]
  IN IF Len(e.player.choice_history) < RandomDepth
     THEN {[first EXCEPT !.location = l] : l \in locations}
          \cup {[first EXCEPT !.directions = SampledDirections[i]] :
                  i \in DOMAIN SampledDirections}
          \cup {[first EXCEPT !.grant = GRANT_ITEMS[i]] : i \in DOMAIN GRANT_ITEMS}
     ELSE {first}

\* the value of the variable paradox
Detection(checked, value) == [checked |-> checked, value |-> value]

\* the value of the variable call before any call
NoCall == [op |-> "none"]

\* InfiniteStoryLoop.__init__ before _initialize_story: a new StoryGraph, a
\* new Player and a new HistoryTracker
NewObjects ==
  [story_graph |-> StoryGraph, current_node |-> NoId,
   player |-> Player(s_the_beginning), history |-> HistoryTracker,
   paradox_count |-> 0, rewrite_count |-> 0, next_id |-> 0]

\* a faulty variant of NewEngine: the start node is the current node and is
\* not added to the graph
EngineWithoutStartNode ==
  [story_graph |-> StoryGraph, current_node |-> 1,
   player |-> Player(s_the_beginning), history |-> HistoryTracker,
   paradox_count |-> 0, rewrite_count |-> 0, next_id |-> 1]

\* InfiniteStoryLoop(): the engine after __init__ and _initialize_story
NewEngine ==
  [story_graph |->
     add_node(StoryGraph,
              StoryNode(1, <<"intro">>, "NARRATIVE", s_the_beginning, <<>>,
                        start_choices)),
   current_node |-> 1, player |-> Player(s_the_beginning),
   history |-> HistoryTracker, paradox_count |-> 0, rewrite_count |-> 0,
   next_id |-> 1]

\* the engine fields are those of e, and no call has been made
EngineIs(e) ==
  /\ nodes = e.story_graph.nodes
  /\ root_id = e.story_graph.root_id
  /\ current_node = e.current_node
  /\ player = e.player
  /\ history = e.history
  /\ paradox_count = e.paradox_count
  /\ rewrite_count = e.rewrite_count
  /\ next_id = e.next_id
  /\ response = NoResponse
  /\ paradox = Detection(FALSE, NoParadox)
  /\ call = NoCall
  /\ result = NoValue

Init == EngineIs(NewEngine)

\* the engine fields become those of e
SetEngine(e) ==
  /\ nodes' = e.story_graph.nodes
  /\ root_id' = e.story_graph.root_id
  /\ current_node' = e.current_node
  /\ player' = e.player
  /\ history' = e.history
  /\ paradox_count' = e.paradox_count
  /\ rewrite_count' = e.rewrite_count
  /\ next_id' = e.next_id

\* process_input: a system command is answered and changes nothing; any
\* other input is checked for a paradox, which is handled, or else advances
\* the story
process_input(raw_input) ==
  LET command == parsed[raw_input]
      p == _detect_paradox(Engine, command)
  IN /\ call' = [op |-> "process_input", raw_input |-> raw_input]
     /\ UNCHANGED result
     /\ IF command.is_command
        THEN /\ response' = Response(system_response_type(command.verb), <<>>,
                                     None, 0, None)
             /\ paradox' = Detection(FALSE, NoParadox)
             /\ UNCHANGED <<nodes, root_id, current_node, player, history,
                            paradox_count, rewrite_count, next_id>>
        ELSE IF p.paradox_type # None
        THEN LET e == _handle_paradox(Engine, p, command)
             IN /\ SetEngine(e)
                /\ response' =
                     Response("paradox",
                              choice_texts(node_at(e.story_graph, e.current_node).choices),
                              p.paradox_type, p.severity, None)
                /\ paradox' = Detection(TRUE, p)
        ELSE \E rnd \in random_outcomes(Engine, command) :
               LET e == _advance_story(Engine, command, rnd)
                   next_node == node_at(e.story_graph, e.current_node)
               IN /\ SetEngine(e)
                  /\ response' = Response("story", choice_texts(next_node.choices),
                                          None, 0, next_node.location)
                  /\ paradox' = Detection(TRUE, p)

\* the engine is replaced by InfiniteStoryLoop.from_dict(engine.to_dict());
\* restoring an engine that was just restored is left out
Restore ==
  /\ call.op # "from_dict"
  /\ \E location_order \in orders(player.visited_locations),
        hash_order \in orders(history.state_hashes) :
       SetEngine(from_dict(to_dict(Engine, location_order, hash_order), next_id))
  /\ call' = [op |-> "from_dict"]
  /\ UNCHANGED <<response, paradox, result>>

\* any input at any time, at most MaxSteps of them not system commands (each
\* of these adds one node to the one the engine starts with)
Next ==
  \E raw_input \in Inputs :
    /\ parsed[raw_input].is_command \/ Len(nodes) <= MaxSteps
    /\ process_input(raw_input)

Spec == Init /\ [][Next]_vars

\* a game that is played, and at any time saved and restored
NextSaved == Next \/ Restore

SpecSaved == Init /\ [][NextSaved]_vars

\* the outcome of a call that raises AttributeError
AttributeError == [kind |-> "AttributeError", value |-> <<>>]

\* StateManager.save: the file written for game_state, as json.load reads it
\* back; version and timestamp are left out
save(game_state) ==
  [exists |-> TRUE,
   json |-> [type |-> "dict", game_state |-> Some(game_state)]]

\* the files a load is tried on, each with what json.load makes of its text:
\* no file, a text that is not JSON ("{bad"), a dict without "game_state"
\* ("{}"), a document that is not a dict ("[1, 2]"), and the file save writes
SaveFiles(game_state) ==
  << [exists |-> FALSE,
      json |-> [type |-> "JSONDecodeError", game_state |-> NoValue]],
     [exists |-> TRUE,
      json |-> [type |-> "JSONDecodeError", game_state |-> NoValue]],
     [exists |-> TRUE, json |-> [type |-> "dict", game_state |-> NoValue]],
     [exists |-> TRUE, json |-> [type |-> "list", game_state |-> NoValue]],
     save(game_state) >>

\* StateManager.load of the file at save_path: None, the game state, or the
\* AttributeError of save_data.get, which the except clause does not catch
load(file) ==
  IF ~file.exists THEN NoValue
  ELSE IF file.json.type = "JSONDecodeError" THEN NoValue
  ELSE IF file.json.type # "dict" THEN AttributeError
  ELSE file.json.game_state

\* GameController._load_game on one of the files: the engine is replaced
\* when load returns a game state; result is what load returned or raised.
\* Loading twice in a row is left out
LoadGame ==
  /\ call.op # "load"
  /\ \E location_order \in orders(player.visited_locations),
        hash_order \in orders(history.state_hashes),
        k \in DOMAIN SaveFiles(<<>>) :
       LET game_state ==
             load(SaveFiles(to_dict(Engine, location_order, hash_order))[k])
       IN /\ call' = [op |-> "load", file |-> k]
          /\ result' = game_state
          /\ IF game_state.kind = "value"
             THEN SetEngine(from_dict(game_state.value, next_id))
             ELSE UNCHANGED <<nodes, root_id, current_node, player, history,
                              paradox_count, rewrite_count, next_id>>
  /\ UNCHANGED <<response, paradox>>

\* a game that is played, and at any time loaded from a save file
NextStored == Next \/ LoadGame

SpecStored == Init /\ [][NextStored]_vars

\* the scenario of test_paradox_handling_increments_count: "go north" and
\* "go south" in alternation, "go north" first.  Every call of the scenario
\* appends one history entry, so the number of entries is the number of calls.
AltInput == IF Len(history.entries) % 2 = 0 THEN StoryInputs[1] ELSE StoryInputs[2]

NextAlt ==
  /\ Len(history.entries) < 2 * AltRounds
  /\ process_input(AltInput)

SpecAlt == Init /\ [][NextAlt]_vars

\* a player who has recorded command n more times against node_id
RECURSIVE record_choices(_, _, _, _)
record_choices(p, node_id, command, n) ==
  IF n = 0 THEN p
  ELSE record_choices(record_choice(p, node_id, command), node_id, command, n - 1)

\* a tracker with n more entries for node_id
RECURSIVE add_entries(_, _, _, _, _, _)
add_entries(h, node_id, action, state, metadata, n) ==
  IF n = 0 THEN h
  ELSE add_entries(add_entry(h, node_id, action, state, metadata),
                   node_id, action, state, metadata, n - 1)

\* a new engine on whose player and history "take sword" was recorded against
\* the start node, through record_choice and add_entry: 9 or 10 actions (10
\* make an action loop of window 5) and 9 or 10 entries (10 make a node loop
\* of window 10)
InitRecorded ==
  \E actions \in {9, 10}, entries \in {9, 10} :
    LET command == parsed[StoryInputs[4]]
    IN EngineIs([NewEngine EXCEPT
         !.player = record_choices(@, 1, command, actions),
         !.history = add_entries(@, 1, command.original,
                                 _get_state_snapshot(NewEngine),
                                 Metadata(command.verb, command.target),
                                 entries)])

SpecRecorded == InitRecorded /\ [][Next]_vars

-----------------------------------------------------------------------------
(* The Player, the HistoryTracker and the StoryGraph as state machines     *)

InitObjects == EngineIs(NewObjects)

\* what a call on one of the three objects leaves alone
engine_fields ==
  <<current_node, paradox_count, rewrite_count, next_id, response, paradox>>

\* history.add_entry(node_id, action, state, metadata)
AddEntry(node_id, action, state, metadata) ==
  /\ history' = add_entry(history, node_id, action, state, metadata)
  /\ call' = [op |-> "add_entry"]
  /\ result' = NoValue
  /\ UNCHANGED <<nodes, root_id, player, engine_fields>>

\* history.clear()
Clear ==
  /\ history' = clear(history)
  /\ call' = [op |-> "clear"]
  /\ result' = NoValue
  /\ UNCHANGED <<nodes, root_id, player, engine_fields>>

\* history = HistoryTracker.from_dict(history.to_dict())
RestoreHistory ==
  /\ \E order \in orders(history.state_hashes) :
       history' = HistoryTracker_from_dict(HistoryTracker_to_dict(history, order))
  /\ call' = [op |-> "HistoryTracker.from_dict"]
  /\ result' = NoValue
  /\ UNCHANGED <<nodes, root_id, player, engine_fields>>

\* history.detect_contradiction(action, target)
DetectContradiction(action, target) ==
  /\ call' = [op |-> "detect_contradiction", action |-> action, target |-> target]
  /\ result' = detect_contradiction(history, action, target)
  /\ UNCHANGED <<nodes, root_id, player, history, engine_fields>>

\* history.detect_node_loop(window_size)
DetectNodeLoop(window_size) ==
  /\ call' = [op |-> "detect_node_loop", window_size |-> window_size]
  /\ result' = detect_node_loop(history, window_size)
  /\ UNCHANGED <<nodes, root_id, player, history, engine_fields>>

\* history.detect_loop(current_state)
DetectLoop(current_state) ==
  /\ call' = [op |-> "detect_loop", current_state |-> current_state]
  /\ result' = detect_loop(history, current_state)
  /\ UNCHANGED <<nodes, root_id, player, history, engine_fields>>

\* player.record_choice(node_id, command)
RecordChoice(node_id, command) ==
  /\ player' = record_choice(player, node_id, command)
  /\ call' = [op |-> "record_choice"]
  /\ result' = NoValue
  /\ UNCHANGED <<nodes, root_id, history, engine_fields>>

\* player.move_to(location)
MoveTo(location) ==
  /\ player' = move_to(player, location)
  /\ call' = [op |-> "move_to", location |-> location]
  /\ result' = NoValue
  /\ UNCHANGED <<nodes, root_id, history, engine_fields>>

\* player.add_item(item)
AddItem(item) ==
  /\ player' = add_item(player, item)
  /\ call' = [op |-> "add_item", item |-> item]
  /\ result' = Some(add_item_returns(player, item))
  /\ UNCHANGED <<nodes, root_id, history, engine_fields>>

\* player.remove_item(item)
RemoveItem(item) ==
  /\ player' = remove_item(player, item)
  /\ call' = [op |-> "remove_item", item |-> item]
  /\ result' = Some(remove_item_returns(player, item))
  /\ UNCHANGED <<nodes, root_id, history, engine_fields>>

\* player.set_flag(flag, value)
SetFlag(flag, value) ==
  /\ player' = set_flag(player, flag, value)
  /\ call' = [op |-> "set_flag"]
  /\ result' = NoValue
  /\ UNCHANGED <<nodes, root_id, history, engine_fields>>

\* player.set_variable(name, value)
SetVariable(name, value) ==
  /\ player' = set_variable(player, name, value)
  /\ call' = [op |-> "set_variable"]
  /\ result' = NoValue
  /\ UNCHANGED <<nodes, root_id, history, engine_fields>>

\* player = Player.from_dict(player.to_dict())
RestorePlayer ==
  /\ \E order \in orders(player.visited_locations) :
       player' = Player_from_dict(Player_to_dict(player, order))
  /\ call' = [op |-> "Player.from_dict"]
  /\ result' = NoValue
  /\ UNCHANGED <<nodes, root_id, history, engine_fields>>

\* player.detect_action_loop(window_size)
DetectActionLoop(window_size) ==
  /\ call' = [op |-> "detect_action_loop", window_size |-> window_size]
  /\ result' = detect_action_loop(player, window_size)
  /\ UNCHANGED <<nodes, root_id, player, history, engine_fields>>

\* the graph becomes g
SetGraph(g) ==
  /\ nodes' = g.nodes
  /\ root_id' = g.root_id
  /\ UNCHANGED <<player, history, engine_fields>>

\* graph.add_node(StoryNode(id=node_id))
AddNode(node_id) ==
  /\ SetGraph(add_node(Engine.story_graph,
                       StoryNode(node_id, <<>>, "NARRATIVE",
                                 <<"u","n","k","n","o","w","n">>, <<>>, <<>>)))
  /\ call' = [op |-> "add_node", node_id |-> node_id]
  /\ result' = NoValue

\* graph.remove_node(node_id)
RemoveNode(node_id) ==
  /\ SetGraph(remove_node(Engine.story_graph, node_id))
  /\ call' = [op |-> "remove_node", node_id |-> node_id]
  /\ result' = Some(remove_node_returns(Engine.story_graph, node_id))

\* graph.get_node(node_id).add_choice(Choice(text, target_node_id=target))
AddChoice(node_id, target_node_id) ==
  /\ has_node(Engine.story_graph, node_id)
  /\ nodes' = [nodes EXCEPT ![node_index(Engine.story_graph, node_id)] =
                 add_choice(@, Choice(<<>>, target_node_id, <<>>))]
  /\ call' = [op |-> "add_choice"]
  /\ result' = NoValue
  /\ UNCHANGED <<root_id, player, history, engine_fields>>

\* the new texts each node has received from rewrite, in call order
Rewrites ==
  IF call.op = "rewrite" THEN call.rewrites ELSE [node_id \in {1, 2} |-> <<>>]

\* graph.get_node(node_id).rewrite(new_text, reason)
Rewrite(node_id, new_text, reason) ==
  /\ has_node(Engine.story_graph, node_id)
  /\ nodes' = [nodes EXCEPT ![node_index(Engine.story_graph, node_id)] =
                 rewrite(@, new_text, reason)]
  /\ call' = [op |-> "rewrite", node_id |-> node_id, new_text |-> new_text,
              rewrites |-> [Rewrites EXCEPT ![node_id] = Append(@, new_text)]]
  /\ result' = NoValue
  /\ UNCHANGED <<root_id, player, history, engine_fields>>

\* graph.find_path(start_id, end_id)
FindPath(start_id, end_id) ==
  /\ call' = [op |-> "find_path", start_id |-> start_id, end_id |-> end_id]
  /\ result' = find_path(Engine.story_graph, start_id, end_id)
  /\ UNCHANGED <<nodes, root_id, player, history, engine_fields>>

\* graph.detect_cycles()
DetectCycles ==
  /\ call' = [op |-> "detect_cycles"]
  /\ result' = Some(detect_cycles(Engine.story_graph))
  /\ UNCHANGED <<nodes, root_id, player, history, engine_fields>>

\* the entries of a log at most: one more than the 20 detect_contradiction scans
MaxEntries == 21
\* the leading entries of a log that are of any kind; later ones are "look"
MaxLeading == 2

\* the action and the target metadata of the entries recorded
EntrySamples ==
  << [action |-> <<"l","o","o","k">>, target |-> None], \* "look", None
     [action |-> <<"t","a","k","e"," ","s","w","o","r","d">>, target |-> <<"s","w","o","r","d">>], \* "take sword", "sword"
     [action |-> <<"T","a","k","e"," ","S","w","o","r","d">>, target |-> <<"S","w","o","r","d">>], \* "Take Sword", "Sword"
     [action |-> <<"t","a","k","e"," ","s","w","o","r","d">>, target |-> None], \* "take sword", None
     [action |-> <<"o","p","e","n"," ","d","o","o","r">>, target |-> <<"d","o","o","r">>], \* "open door", "door"
     [action |-> <<"g","o"," ","n","o","r","t","h">>, target |-> <<"n","o","r","t","h">>], \* "go north", "north"
     [action |-> <<"g","o"," ","n","o","r","t","h","e","a","s","t">>, target |-> <<"n","o","r","t","h","e","a","s","t">>] >> \* "go northeast", "northeast"

\* the action and the target of the queries
QuerySamples ==
  << [action |-> <<"d","r","o","p"," ","s","w","o","r","d">>, target |-> <<"s","w","o","r","d">>], \* "drop sword", "sword"
     [action |-> <<"D","r","o","p"," ","i","t">>, target |-> <<"S","W","O","R","D">>], \* "Drop it", "SWORD"
     [action |-> <<"t","a","k","e"," ","s","h","i","e","l","d">>, target |-> <<"s","h","i","e","l","d">>], \* "take shield", "shield"
     [action |-> <<"d","r","o","p"," ","s","w","o","r","d">>, target |-> None], \* "drop sword", None
     [action |-> <<"c","l","o","s","e"," ","d","o","o","r">>, target |-> <<"d","o","o","r">>], \* "close door", "door"
     [action |-> <<"g","o"," ","s","o","u","t","h">>, target |-> <<"s","o","u","t","h">>], \* "go south", "south"
     [action |-> <<"g","o"," ","s","o","u","t","h","e","a","s","t">>, target |-> <<"s","o","u","t","h","e","a","s","t">>] >> \* "go southeast", "southeast"

NextContradiction ==
  \/ \E k \in DOMAIN EntrySamples :
       /\ Len(history.entries) < MaxEntries
       /\ k = 1 \/ Len(history.entries) < MaxLeading
       /\ AddEntry(Len(history.entries) + 1, EntrySamples[k].action, <<>>,
                   Metadata(None, EntrySamples[k].target))
  \/ \E k \in DOMAIN QuerySamples :
       DetectContradiction(QuerySamples[k].action, QuerySamples[k].target)

SpecContradiction == InitObjects /\ [][NextContradiction]_vars

\* the entries of a log of node visits at most
MaxTrail == 6
\* the largest window of a query
MaxWindow == 6
\* the node ids visited
TrailIds == 1..3

NextNodeLoop ==
  \/ \E node_id \in TrailIds :
       /\ Len(history.entries) < MaxTrail
       /\ AddEntry(node_id, EntrySamples[1].action, <<>>, NoMetadata)
  \/ \E window_size \in 0..MaxWindow : DetectNodeLoop(window_size)

SpecNodeLoop == InitObjects /\ [][NextNodeLoop]_vars

\* the actions recorded at most: twice the default window of 5
MaxActions == 10

NextPlayer ==
  \/ \E k \in {1, 3} :
       /\ Len(player.action_history) < MaxActions
       /\ RecordChoice(1, parsed[StoryInputs[k]])
  \/ \E window_size \in 1..MaxWindow : DetectActionLoop(window_size)

SpecPlayer == InitObjects /\ [][NextPlayer]_vars

\* the states recorded at most
MaxRecorded == 3
\* the states recorded and queried: the second is the first with its keys in
\* another order, the third differs from it in the type of a value, the
\* fourth in the keys
StateSamples ==
  << << <<<<"a">>, JStr(<<"x">>)>>, <<<<"n">>, JInt(1)>> >>,
     << <<<<"n">>, JInt(1)>>, <<<<"a">>, JStr(<<"x">>)>> >>,
     << <<<<"a">>, JStr(<<"x">>)>>, <<<<"n">>, JStr(<<"1">>)>> >>,
     << <<<<"a">>, JStr(<<"x">>)>>, <<<<"m">>, JList(<< <<"x">> >>)>> >> >>

\* an entry recorded with StateSamples[k] carries k as its node id
NextLoop ==
  \/ \E k \in DOMAIN StateSamples :
       /\ Len(history.entries) < MaxRecorded
       /\ AddEntry(k, EntrySamples[1].action, StateSamples[k], NoMetadata)
  \/ \E k \in DOMAIN StateSamples : DetectLoop(StateSamples[k])

SpecLoop == InitObjects /\ [][NextLoop]_vars

\* a log that is appended to, cleared, and restored from its snapshot
NextHistory ==
  \/ \E k \in DOMAIN StateSamples :
       /\ Len(history.entries) < MaxRecorded
       /\ AddEntry(k, EntrySamples[1].action, StateSamples[k], NoMetadata)
  \/ Clear
  \/ RestoreHistory

SpecHistory == InitObjects /\ [][NextHistory]_vars

\* the choices of a graph at most
MaxChoices == 3
\* the ids of the nodes added, and an id no node ever has
GraphIds == 1..3
AbsentId == 4

\* the number of choices of the nodes ns
RECURSIVE total_choices(_)
total_choices(ns) ==
  IF ns = <<>> THEN 0 ELSE Len(ns[1].choices) + total_choices(Tail(ns))

NextGraph ==
  \/ \E node_id \in GraphIds : AddNode(node_id)
  \/ \E node_id \in GraphIds, target_node_id \in GraphIds \cup {AbsentId, NoId} :
       /\ total_choices(nodes) < MaxChoices
       /\ AddChoice(node_id, target_node_id)
  \/ \E start_id \in GraphIds, end_id \in GraphIds : FindPath(start_id, end_id)

SpecGraph == InitObjects /\ [][NextGraph]_vars

\* graphs built node by node and choice by choice, searched for cycles
NextCycles ==
  \/ \E node_id \in GraphIds : AddNode(node_id)
  \/ \E node_id \in GraphIds, target_node_id \in GraphIds \cup {AbsentId, NoId} :
       /\ total_choices(nodes) < MaxChoices
       /\ AddChoice(node_id, target_node_id)
  \/ DetectCycles

SpecCycles == InitObjects /\ [][NextCycles]_vars

\* nodes added to a graph and removed from it, in any order
NextRoot ==
  \/ \E node_id \in GraphIds : AddNode(node_id)
  \/ \E node_id \in GraphIds : RemoveNode(node_id)

SpecRoot == InitObjects /\ [][NextRoot]_vars

\* the rewrites of a node at most
MaxRewrites == 2
\* the texts of the nodes: node 1 starts with the first, node 2 with the second
NodeTexts == << <<"a">>, <<"b">>, <<"c">> >>

\* a graph of two nodes that were never rewritten
InitRewrite ==
  EngineIs([NewObjects EXCEPT !.story_graph =
              add_node(add_node(StoryGraph,
                                StoryNode(1, NodeTexts[1], "NARRATIVE",
                                          s_the_beginning, <<>>, <<>>)),
                       StoryNode(2, NodeTexts[2], "NARRATIVE", s_the_beginning,
                                 <<>>, <<>>))])

NextRewrite ==
  \E node_id \in {1, 2}, k \in DOMAIN NodeTexts,
     reason \in {s_TEMPORAL_LOOP, s_CONTRADICTION} :
    /\ Len(Rewrites[node_id]) < MaxRewrites
    /\ Rewrite(node_id, NodeTexts[k], reason)

SpecRewrite == InitRewrite /\ [][NextRewrite]_vars

\* the snapshots of a player at most
MaxSnapshots == 4
\* the locations a player moves to
PlaceSamples == {s_the_beginning, <<"t","h","e"," ","v","o","i","d">>}
NextTraveler ==
  \/ \E location \in PlaceSamples :
       /\ Len(player.state_history) < MaxSnapshots
       /\ MoveTo(location)
  \/ /\ Len(player.state_history) < MaxSnapshots
     /\ RecordChoice(1, parsed[StoryInputs[3]])
  \/ AddItem(<<"k","e","y">>)
  \/ RemoveItem(<<"K","e","y">>)
  \/ SetFlag(<<"S","e","e","n">>, TRUE)
  \/ SetVariable(<<"H","P">>, 1)
  \/ RestorePlayer

SpecTraveler == InitObjects /\ [][NextTraveler]_vars

\* the items added and removed: two are equal ignoring case
ItemSamples ==
  {<<"k","e","y">>, <<"K","e","y">>, <<"o","r","b">>, <<"m","a","p">>}

\* items added to an inventory and removed from it, in any order
NextInventory ==
  \/ \E item \in ItemSamples : AddItem(item)
  \/ \E item \in ItemSamples : RemoveItem(item)

SpecInventory == InitObjects /\ [][NextInventory]_vars

-----------------------------------------------------------------------------
(* The engine: properties                                                  *)

\* C1: in the scenario that alternates "go north" and "go south" from a new
\* engine, paradox_count, 0 at the start, has increased before the 24th call,
\* whatever the random draws are
C1_ParadoxBefore24thCall ==
  Len(history.entries) >= 2 * AltRounds - 1 => paradox_count > 0

C1_Witness ==
  /\ Len(history.entries) = 2 * AltRounds - 1
  /\ paradox_count > 0
  /\ call = [op |-> "process_input", raw_input |-> StoryInputs[1]]

\* the command of the call a step makes
called == parsed[call'.raw_input]

\* C2: on a new engine (no history entry, empty inventory) an input parsed to
\* "use" with a non-empty target X returns a paradox response of type
\* IMPOSSIBLE_STATE and severity 5, and the paradox carries missing_item = X
C2_UseOnNewEngine ==
  [][(/\ history.entries = <<>>
      /\ player.inventory = <<>>
      /\ call'.op = "process_input"
      /\ called.verb = s_use
      /\ truthy(called.target))
     => /\ response'.type = "paradox"
        /\ response'.paradox_type = s_IMPOSSIBLE_STATE
        /\ response'.severity = 5
        /\ paradox'.value.paradox_type = s_IMPOSSIBLE_STATE
        /\ paradox'.value.metadata.missing_item = called.target]_vars

C2_Witness ==
  /\ Len(history.entries) = 1
  /\ call = [op |-> "process_input", raw_input |-> StoryInputs[7]]
  /\ response.type = "paradox"
  /\ paradox.value.metadata.missing_item = <<"l","a","m","p">>

\* the type and severity of the first detector that hits, in the order action
\* loop (window 5), node loop (window 10), contradiction, use of an item not
\* held; <<None, 0>> when none hits
C3_FirstHit(command) ==
  IF detect_action_loop(player, 5) # NoValue THEN <<s_TEMPORAL_LOOP, 6>>
  ELSE IF detect_node_loop(history, 10) # NoValue THEN <<s_TEMPORAL_LOOP, 7>>
  ELSE IF detect_contradiction(history, command_action(command),
                               command.target) # NoContradiction
  THEN <<s_CONTRADICTION, 8>>
  ELSE IF command.verb = s_use /\ truthy(command.target)
          /\ ~has_item(player, command.target)
  THEN <<s_IMPOSSIBLE_STATE, 5>>
  ELSE <<None, 0>>

\* C3: for every input that is not a system command, the paradox acted on is
\* that of the first detector that hits, in the order action loop
\* (TEMPORAL_LOOP/6), node loop (TEMPORAL_LOOP/7), contradiction
\* (CONTRADICTION/8), use of an item not held (IMPOSSIBLE_STATE/5), and the
\* story advances only when none hits
C3_DetectorPriority ==
  [][(call'.op = "process_input" /\ ~called.is_command)
     => LET hit == C3_FirstHit(called)
        IN /\ paradox'.checked
           /\ paradox'.value.paradox_type = hit[1]
           /\ paradox'.value.severity = hit[2]
           /\ IF hit[1] = None
              THEN response'.type = "story" /\ paradox_count' = paradox_count
              ELSE /\ response'.type = "paradox"
                   /\ response'.paradox_type = hit[1]
                   /\ response'.severity = hit[2]
                   /\ paradox_count' = paradox_count + 1]_vars

\* the node loop wins over the use of an item not held
C3_Witness ==
  /\ call = [op |-> "process_input", raw_input |-> StoryInputs[7]]
  /\ paradox.checked
  /\ paradox.value.severity = 7
  /\ ~has_item(player, <<"l","a","m","p">>)

\* the response types of SystemInputs
C4_Types == <<"system", "system", "system", "quit", "save", "load", "system">>

\* C4: a system command (an alias included) returns the type of its verb,
\* runs no paradox detection and no advancement, and leaves the story graph,
\* the current node, the player, the history, paradox_count and rewrite_count
\* unchanged
C4_SystemCommandFrame ==
  [][\A k \in DOMAIN SystemInputs :
       (call'.op = "process_input" /\ call'.raw_input = SystemInputs[k])
       => /\ response'.type = C4_Types[k]
          /\ ~paradox'.checked
          /\ UNCHANGED <<nodes, root_id, current_node, player, history,
                         paradox_count, rewrite_count>>]_vars

C4_Witness ==
  /\ call = [op |-> "process_input", raw_input |-> SystemInputs[6]]
  /\ response.type = "load"
  /\ ~paradox.checked
  /\ Len(history.entries) = MaxSteps
  /\ paradox_count > 0

\* C5: an input that is not a system command returns a story or a paradox
\* response and adds exactly one node to the graph; that node is the current
\* node afterwards and is not the node that was current before
C5_OneNewCurrentNode ==
  [][(call'.op = "process_input" /\ ~called.is_command)
     => /\ response'.type \in {"story", "paradox"}
        /\ Len(nodes') = Len(nodes) + 1
        /\ \A i \in DOMAIN nodes : nodes'[i].id = nodes[i].id
        /\ ~has_node([nodes |-> nodes, root_id |-> root_id], nodes'[Len(nodes')].id)
        /\ current_node' = nodes'[Len(nodes')].id
        /\ current_node' # current_node]_vars

C5_Witness ==
  /\ Len(nodes) = 3
  /\ current_node = nodes[3].id
  /\ current_node # nodes[2].id
  /\ response.type = "paradox"
  /\ nodes[2].node_type = "NARRATIVE"

-----------------------------------------------------------------------------
(* The HistoryTracker, the Player and the StoryGraph: properties           *)

\* the two sides of the same-target rules, in both orders
C6_Sides ==
  LET take == <<"t","a","k","e">>
      drop == <<"d","r","o","p">>
      open == <<"o","p","e","n">>
      close == <<"c","l","o","s","e">>
      attack == <<"a","t","t","a","c","k">>
      talk == <<"t","a","l","k">>
  IN {<<take, drop>>, <<drop, take>>, <<open, close>>, <<close, open>>,
      <<attack, talk>>, <<talk, attack>>}

\* some entry among the 20 most recent opposes the queried action under a
\* same-target rule, with a target equal to the queried one ignoring case,
\* both non-empty
C6_Opposed ==
  \E i \in DOMAIN history.entries, sides \in C6_Sides :
    /\ i > Len(history.entries) - 20
    /\ startswith(lower(call.action), sides[1])
    /\ startswith(lower(history.entries[i].action), sides[2])
    /\ call.target # None /\ call.target # <<>>
    /\ history.entries[i].metadata.target # None
    /\ history.entries[i].metadata.target # <<>>
    /\ lower(call.target) = lower(history.entries[i].metadata.target)

\* C6: for the same-target rules (take/drop, open/close, attack/talk)
\* detect_contradiction(action, target) returns a contradiction descriptor
\* exactly when some entry among the 20 most recent has an action that starts,
\* ignoring case, with the side opposite to the one the lower-cased action
\* starts with, and the target and the entry's target metadata are non-empty
\* and equal ignoring case; otherwise an action of such a rule gets None
C6_SameTargetContradiction ==
  call.op = "detect_contradiction"
  => /\ result.type = "contradiction" <=> C6_Opposed
     /\ C6_Opposed => /\ result.current_action = call.action
                      /\ result.target = call.target
     /\ ((\E sides \in C6_Sides : startswith(lower(call.action), sides[1]))
          /\ ~C6_Opposed)
        => result = NoContradiction

\* "Drop it" / "SWORD" is reported against "Take Sword" / "Sword", the second
\* of 21 entries
C6_Witness ==
  /\ call = [op |-> "detect_contradiction", action |-> QuerySamples[2].action,
             target |-> QuerySamples[2].target]
  /\ result.type = "contradiction"
  /\ Len(history.entries) = MaxEntries
  /\ history.entries[1].action = EntrySamples[1].action
  /\ history.entries[2].action = EntrySamples[3].action

\* the node ids of the entries
C7_Visited == [i \in DOMAIN history.entries |-> history.entries[i].node_id]

\* the lengths L, 2 <= L <= window/2, for which the last L node ids equal the
\* L node ids before them
C7_Lengths ==
  {L \in 2..Len(C7_Visited) :
     /\ 2 * L <= call.window_size
     /\ \A k \in 1..L :
          C7_Visited[Len(C7_Visited) - L + k] = C7_Visited[Len(C7_Visited) - 2 * L + k]}

\* C7: detect_node_loop(window) returns None when fewer than window entries
\* exist; otherwise it returns the last L node ids for the smallest L with
\* 2 <= L <= window/2 whose last L node ids equal the L before them, and
\* None when there is no such L
C7_NodeLoop ==
  call.op = "detect_node_loop"
  => IF Len(C7_Visited) < call.window_size \/ C7_Lengths = {}
     THEN result = NoValue
     ELSE LET L == CHOOSE l \in C7_Lengths : \A m \in C7_Lengths : l <= m
          IN result = Some(SubSeq(C7_Visited, Len(C7_Visited) - L + 1,
                                  Len(C7_Visited)))

\* window 6 on the visits 1, 2, 3, 1, 2, 3 returns 1, 2, 3
C7_Witness ==
  /\ call = [op |-> "detect_node_loop", window_size |-> 6]
  /\ C7_Visited = <<1, 2, 3, 1, 2, 3>>
  /\ result = Some(<<1, 2, 3>>)

\* the verbs of the actions recorded
C8_Verbs == [i \in DOMAIN player.action_history |-> player.action_history[i].verb]

\* at least 2 * window actions are recorded and the verbs of the last window
\* actions are those of the window actions before them
C8_Repeats ==
  /\ Len(C8_Verbs) >= 2 * call.window_size
  /\ \A k \in 1..call.window_size :
       C8_Verbs[Len(C8_Verbs) - call.window_size + k]
         = C8_Verbs[Len(C8_Verbs) - 2 * call.window_size + k]

\* C8: detect_action_loop(window), window >= 1, returns the verbs of the last
\* window actions exactly when at least 2 * window actions are recorded and
\* these verbs are those of the window actions before them; otherwise None.
\* (With window 0 Python's pattern[-0:] is the whole list: the call returns
\* [] when nothing is recorded and None otherwise.)
C8_ActionLoop ==
  call.op = "detect_action_loop"
  => IF C8_Repeats
     THEN result = Some(SubSeq(C8_Verbs, Len(C8_Verbs) - call.window_size + 1,
                               Len(C8_Verbs)))
     ELSE result = NoValue

\* the default window on ten actions that are two equal runs of five, not
\* all the same verb
C8_Witness ==
  /\ call = [op |-> "detect_action_loop", window_size |-> 5]
  /\ Len(C8_Verbs) = 10
  /\ result.kind = "value"
  /\ Len(result.value) = 5
  /\ result.value[1] # result.value[2]

\* two states are equal as key-value maps
C9_SameMap(s1, s2) ==
  {s1[i] : i \in DOMAIN s1} = {s2[i] : i \in DOMAIN s2}

\* the entries recorded with a state equal, as a map, to the queried one
C9_Hits ==
  {i \in DOMAIN history.entries :
     C9_SameMap(StateSamples[history.entries[i].node_id], call.current_state)}

\* C9: detect_loop(s) returns the smallest index (from 0) of an entry recorded
\* with a state equal to s as a key-value map, whatever the order of the
\* keys, and None when there is no such entry
C9_FirstEqualState ==
  call.op = "detect_loop"
  => IF C9_Hits = {} THEN result.kind = "None"
     ELSE /\ result.kind = "value"
          /\ result.value = (CHOOSE i \in C9_Hits : \A j \in C9_Hits : i <= j) - 1

\* after the first state, another one and the first state again, the first
\* state with its keys reordered is found at index 0
C9_Witness ==
  /\ call = [op |-> "detect_loop", current_state |-> StateSamples[2]]
  /\ C7_Visited = <<1, 3, 1>>
  /\ result.kind = "value"
  /\ result.value = 0

\* the graph has a node a with a Choice whose target is b
C10_Edge(a, b) ==
  /\ has_node(Engine.story_graph, a)
  /\ \E i \in DOMAIN node_at(Engine.story_graph, a).choices :
       node_at(Engine.story_graph, a).choices[i].target_node_id = b

\* the paths from a to b along Choice targets that repeat no id
C10_Paths(a, b) ==
  {path \in UNION {[1..n -> GraphIds \cup {AbsentId}] : n \in 1..4} :
     /\ path[1] = a
     /\ path[Len(path)] = b
     /\ \A i \in 1..(Len(path) - 1) : C10_Edge(path[i], path[i + 1])
     /\ \A i, j \in DOMAIN path : path[i] = path[j] => i = j}

\* C10: when start and end are in the graph and end is reachable from start
\* along Choice targets, find_path(start, end) returns a path from start to
\* end along Choice targets that repeats no id and has the fewest edges of
\* all such paths; find_path(x, x) = [x] for x in the graph
C10_ShortestPath ==
  (/\ call.op = "find_path"
   /\ has_node(Engine.story_graph, call.start_id)
   /\ has_node(Engine.story_graph, call.end_id)
   /\ C10_Paths(call.start_id, call.end_id) # {})
  => /\ result.kind = "value"
     /\ result.value \in C10_Paths(call.start_id, call.end_id)
     /\ \A path \in C10_Paths(call.start_id, call.end_id) :
          Len(result.value) <= Len(path)
     /\ call.start_id = call.end_id => result.value = <<call.start_id>>

\* C11: find_path(start, end) returns None, and raises nothing, when start or
\* end is not in the graph or end is not reachable from start along Choice
\* targets, also when Choice targets name ids that are not in the graph
C11_AbsentWithoutError ==
  (/\ call.op = "find_path"
   /\ \/ ~has_node(Engine.story_graph, call.start_id)
      \/ ~has_node(Engine.story_graph, call.end_id)
      \/ C10_Paths(call.start_id, call.end_id) = {})
  => result = NoValue

\* the Choice target edges of the graph, dangling ones included
C12_Edges ==
  {e \in GraphIds \X (GraphIds \cup {AbsentId}) : C10_Edge(e[1], e[2])}

\* the edges are exactly a -> b, b -> c, c -> a for the three ids in some order
C12_Triangle ==
  \E a, b, c \in GraphIds :
    /\ {a, b, c} = GraphIds
    /\ C12_Edges = {<<a, b>>, <<b, c>>, <<c, a>>}

\* C12: on a graph whose Choice target edges are exactly A -> B, B -> C and
\* C -> A, detect_cycles() returns at least one cycle that contains the three
\* ids, in whatever order the nodes were added
C12_CycleOfThree ==
  (call.op = "detect_cycles" /\ C12_Triangle)
  => \E i \in DOMAIN result.value :
       GraphIds \subseteq {result.value[i][k] : k \in DOMAIN result.value[i]}

\* the cycle 3 -> 1 -> 2 -> 3 found on a graph whose nodes were added in the
\* order 3, 1, 2
C12_Witness ==
  /\ call.op = "detect_cycles"
  /\ C12_Triangle
  /\ [i \in DOMAIN nodes |-> nodes[i].id] = <<3, 1, 2>>
  /\ C10_Edge(1, 2)
  /\ result = Some(<< <<3, 1, 2, 3>> >>)

\* C13: along any sequence of add_node calls on a new graph, root_id is the
\* id of the first node added (nodes keeps the insertion order) and, once
\* set, never changes
C13_RootIsFirstAdded ==
  [][/\ nodes' # <<>> => root_id' = nodes'[1].id
     /\ root_id # NoId => root_id' = root_id]_vars

\* node 2 added first, then node 1: the root is 2
C13_Witness ==
  /\ call = [op |-> "add_node", node_id |-> 1]
  /\ [i \in DOMAIN nodes |-> nodes[i].id] = <<2, 1>>
  /\ root_id = 2

\* C14 as stated: along any sequence of add_node and remove_node calls, an
\* add_node on a graph that contains no node makes the id of the node added
\* the root_id
C14_RootWhenEmpty ==
  [][(call'.op = "add_node" /\ nodes = <<>>) => root_id' = call'.node_id]_vars

\* C14 amended: along any sequence of add_node and remove_node calls, an
\* add_node makes the id of the node added the root_id when no node was
\* ever added before (root_id is None), and leaves root_id as it is
\* otherwise, also when remove_node has emptied the graph
C14_RootWhenNeverAdded ==
  [][call'.op = "add_node"
     => root_id' = IF root_id = NoId THEN call'.node_id ELSE root_id]_vars

\* node 1 added and removed, then node 2 added to the empty graph: the root
\* is still 1
C14_Witness ==
  /\ call = [op |-> "add_node", node_id |-> 2]
  /\ [i \in DOMAIN nodes |-> nodes[i].id] = <<2>>
  /\ root_id = 1

\* C15: after n >= 1 rewrite calls on a node, original_text is the text the
\* node had before the first of them, rewrite_count is n, and text is the
\* new text of the last of them
C15_RewriteBookkeeping ==
  \A node_id \in {1, 2} :
    Len(Rewrites[node_id]) >= 1
    => /\ node_at(Engine.story_graph, node_id).original_text = NodeTexts[node_id]
       /\ node_at(Engine.story_graph, node_id).rewrite_count = Len(Rewrites[node_id])
       /\ node_at(Engine.story_graph, node_id).text = Rewrites[node_id][Len(Rewrites[node_id])]

\* node 1, of text "a", rewritten to "b" and then to "c"
C15_Witness ==
  /\ Rewrites[1] = <<NodeTexts[2], NodeTexts[3]>>
  /\ node_at(Engine.story_graph, 1).original_text = NodeTexts[1]
  /\ node_at(Engine.story_graph, 1).rewrite_count = 2
  /\ node_at(Engine.story_graph, 1).text = NodeTexts[3]

\* the ids, the texts and the choices of the nodes ns
C16_Nodes(ns) ==
  [i \in DOMAIN ns |->
     [id |-> ns[i].id, text |-> ns[i].text,
      choices |-> [k \in DOMAIN ns[i].choices |->
                     <<ns[i].choices[k].text, ns[i].choices[k].target_node_id,
                       ns[i].choices[k].action>>]]]

\* the state hashes of the entries of the log h, in order
C16_Hashes(h) == [i \in DOMAIN h.entries |-> h.entries[i].state_hash]

\* C16: restoring an engine reached by process_input from the snapshot
\* to_dict produces gives the same node ids, node texts and choices (text,
\* target id, action), the same root id and current node id, as many history
\* entries with the same state hashes in the same order, the same inventory,
\* location, flags and variables of the player, and the same paradox_count
\* and rewrite_count
C16_RoundTrip ==
  [][call'.op = "from_dict"
     => /\ C16_Nodes(nodes') = C16_Nodes(nodes)
        /\ root_id' = root_id
        /\ current_node' = current_node
        /\ C16_Hashes(history') = C16_Hashes(history)
        /\ player'.inventory = player.inventory
        /\ player'.current_location = player.current_location
        /\ player'.flags = player.flags
        /\ player'.variables = player.variables
        /\ paradox_count' = paradox_count
        /\ rewrite_count' = rewrite_count]_vars

\* an engine restored after a story step and a paradox
C16_Witness ==
  /\ call.op = "from_dict"
  /\ Len(nodes) = 3
  /\ current_node = 3
  /\ paradox_count = 1
  /\ Len(history.entries) = 2
  /\ Cardinality(player.visited_locations) = 2

\* C17: in every state a Player reaches from construction by move_to,
\* record_choice, add_item, remove_item, set_flag, set_variable and a restore
\* with from_dict, visited_locations contains current_location
C17_CurrentLocationVisited ==
  player.current_location \in player.visited_locations

\* a player that moved to the void and was restored from its snapshot
C17_Witness ==
  /\ call.op = "Player.from_dict"
  /\ player.current_location = <<"t","h","e"," ","v","o","i","d">>
  /\ player.visited_locations = PlaceSamples
  /\ Len(player.state_history) = 2

\* the inventory holds an item equal to item ignoring case
C19_Held(inventory, item) ==
  \E i \in DOMAIN inventory : lower(inventory[i]) = lower(item)

\* C18: in every state a HistoryTracker reaches by add_entry, clear and a
\* restore from the snapshot to_dict produces, state_hashes is exactly the
\* set of the state_hash values of the entries
C18_HashesOfEntries ==
  history.state_hashes =
    {history.entries[i].state_hash : i \in DOMAIN history.entries}

\* a restored log of three entries, two of them recorded with the same state
C18_Witness ==
  /\ call.op = "HistoryTracker.from_dict"
  /\ Len(history.entries) = 3
  /\ Cardinality(history.state_hashes) = 2

\* C19: along any sequence of add_item and remove_item calls from an empty
\* inventory, no two items of the inventory are equal ignoring case;
\* add_item(x) returns true exactly when no item equal to x ignoring case
\* was held, and then stores x as it is spelled, after the items held, which
\* stay as they are; remove_item stores nothing new, and when remove_item(x)
\* returns true has_item(x) is false afterwards
C19_CaseInsensitiveInventory ==
  [][/\ \A i, j \in DOMAIN player'.inventory :
          lower(player'.inventory[i]) = lower(player'.inventory[j]) => i = j
     /\ call'.op = "add_item"
        => /\ result' = Some(~C19_Held(player.inventory, call'.item))
           /\ player'.inventory =
                IF C19_Held(player.inventory, call'.item)
                THEN player.inventory
                ELSE Append(player.inventory, call'.item)
     /\ call'.op = "remove_item"
        => /\ \A i \in DOMAIN player'.inventory :
                in_list(player'.inventory[i], player.inventory)
           /\ result' = Some(TRUE) => ~has_item(player', call'.item)]_vars

\* "Key" is refused by an inventory that holds "key", which stays as it was
\* added
C19_Witness ==
  /\ call = [op |-> "add_item", item |-> <<"K","e","y">>]
  /\ result = Some(FALSE)
  /\ player.inventory = << <<"o","r","b">>, <<"k","e","y">> >>

\* C20: a step that handles a paradox raises paradox_count by exactly 1,
\* adds exactly one node, of type PARADOX, whose predecessors are the node
\* that was current, appends exactly one history entry, for that node and
\* with the action "paradox_resolution:<TYPE>", makes that node the current
\* node, and returns a response with the name of the paradox type and the
\* severity
C20_ParadoxStep ==
  [][(call'.op = "process_input" /\ paradox'.checked
      /\ paradox'.value.paradox_type # None)
     => /\ paradox_count' = paradox_count + 1
        /\ Len(nodes') = Len(nodes) + 1
        /\ \A i \in DOMAIN nodes : nodes'[i].id = nodes[i].id
        /\ ~has_node(Engine.story_graph, nodes'[Len(nodes')].id)
        /\ nodes'[Len(nodes')].node_type = "PARADOX"
        /\ nodes'[Len(nodes')].previous_node_ids = <<current_node>>
        /\ Len(history'.entries) = Len(history.entries) + 1
        /\ SubSeq(history'.entries, 1, Len(history.entries)) = history.entries
        /\ history'.entries[Len(history'.entries)].node_id = nodes'[Len(nodes')].id
        /\ history'.entries[Len(history'.entries)].action =
             <<"p","a","r","a","d","o","x","_","r","e","s","o","l","u","t","i","o","n",":">>
               \o paradox'.value.paradox_type
        /\ current_node' = nodes'[Len(nodes')].id
        /\ response'.type = "paradox"
        /\ response'.paradox_type = paradox'.value.paradox_type
        /\ response'.severity = paradox'.value.severity]_vars

\* a temporal loop handled on the first node: the resolution node follows it
C20_Witness ==
  /\ call.op = "process_input"
  /\ response.type = "paradox"
  /\ response.paradox_type = s_TEMPORAL_LOOP
  /\ paradox_count = 1
  /\ nodes[Len(nodes)].node_type = "PARADOX"
  /\ nodes[Len(nodes)].previous_node_ids = <<1>>
  /\ current_node = nodes[Len(nodes)].id

-----------------------------------------------------------------------------
\* a game played with the worded inputs, at most MaxSteps of them
NextWorded ==
  \E i \in DOMAIN WordedInputs :
    /\ Len(nodes) <= MaxSteps
    /\ process_input(WordedInputs[i])

SpecWorded == Init /\ [][NextWorded]_vars

-----------------------------------------------------------------------------
\* C21: a step of normal advancement appends the id of the node that was
\* current to choice_history and the parsed command to action_history, adds
\* exactly one node, of type NARRATIVE, whose predecessors are the node that
\* was current, appends exactly one history entry, for that node and with the
\* text of the input as its action (the parser's "original": the input
\* without the blanks around it), and makes that node the current node
C21_AdvanceStep ==
  [][(call'.op = "process_input" /\ paradox'.checked
      /\ paradox'.value.paradox_type = None)
     => /\ player'.choice_history = Append(player.choice_history, current_node)
        /\ player'.action_history =
             Append(player.action_history, parse(call'.raw_input))
        /\ Len(nodes') = Len(nodes) + 1
        /\ SubSeq(nodes', 1, Len(nodes)) = nodes
        /\ ~has_node(Engine.story_graph, nodes'[Len(nodes')].id)
        /\ nodes'[Len(nodes')].node_type = "NARRATIVE"
        /\ nodes'[Len(nodes')].previous_node_ids = <<current_node>>
        /\ Len(history'.entries) = Len(history.entries) + 1
        /\ SubSeq(history'.entries, 1, Len(history.entries)) = history.entries
        /\ history'.entries[Len(history'.entries)].node_id = nodes'[Len(nodes')].id
        /\ history'.entries[Len(history'.entries)].action = strip(call'.raw_input)
        /\ current_node' = nodes'[Len(nodes')].id]_vars

\* " look " advanced the story from the second node: the choice is recorded
\* against that node and the entry of the third node has the action "look"
C21_Witness ==
  /\ call = [op |-> "process_input", raw_input |-> StoryInputs[3]]
  /\ response.type = "story"
  /\ Len(nodes) = 3
  /\ player.choice_history = <<nodes[1].id, nodes[2].id>>
  /\ nodes[3].previous_node_ids = <<nodes[2].id>>
  /\ history.entries[Len(history.entries)].node_id = nodes[3].id
  /\ history.entries[Len(history.entries)].action = <<"l","o","o","k">>
  /\ current_node = nodes[3].id

-----------------------------------------------------------------------------
\* C22: in every state of a game played from a new engine the current node
\* is not None and is a node of the story graph
C22_CurrentNodeInGraph ==
  /\ current_node # NoId
  /\ has_node(Engine.story_graph, current_node)

\* after a paradox and an advancement the current node is the third node
C22_Witness ==
  /\ call.op = "process_input"
  /\ paradox_count = 1
  /\ response.type = "story"
  /\ Len(nodes) = 3
  /\ nodes[2].node_type = "PARADOX"
  /\ current_node = nodes[3].id

-----------------------------------------------------------------------------
\* C23: a load of a missing or malformed save file ends without an
\* exception: load returns None or a game state
C23_LoadNeverRaises ==
  call.op = "load" => result.kind \in {"None", "value"}

-----------------------------------------------------------------------------
\* C24: from a state where the last 10 recorded verbs are two equal runs of
\* 5, every step leaves action_history, choice_history, the location and the
\* inventory as they are, so the runs stay, and every input that is not a
\* system command is answered by a TEMPORAL_LOOP paradox of severity 6
C24_LoopIsKept ==
  [][(detect_action_loop(player, 5).kind = "value")
     => /\ player'.action_history = player.action_history
        /\ player'.choice_history = player.choice_history
        /\ player'.current_location = player.current_location
        /\ player'.inventory = player.inventory
        /\ detect_action_loop(player', 5).kind = "value"
        /\ (call'.op = "process_input" /\ ~parse(call'.raw_input).is_command)
             => /\ response'.type = "paradox"
                /\ response'.paradox_type = s_TEMPORAL_LOOP
                /\ response'.severity = 6]_vars

\* the second temporal loop in a row, with the 10 recorded actions untouched
C24_Witness ==
  /\ call.op = "process_input"
  /\ Len(player.action_history) = 10
  /\ detect_action_loop(player, 5).kind = "value"
  /\ paradox_count = 2
  /\ response.paradox_type = s_TEMPORAL_LOOP
  /\ response.severity = 6

-----------------------------------------------------------------------------
\* C25: in the scenario of "go north" and "go south" in alternation,
\* detect_node_loop(10) matches on the history the engine has at one of the
\* first 23 calls, that is, on one of the first 0..22 entries
C25_NodeLoopMatches ==
  Len(history.entries) >= 23
    => \E n \in 0..22 :
         detect_node_loop([history EXCEPT !.entries = SubSeq(@, 1, n)], 10).kind
           = "value"

-----------------------------------------------------------------------------
-----------------------------------------------------------------------------
\* the actions of the choices of the current node, in order
C27_Actions ==
  LET choices == node_at(Engine.story_graph, current_node).choices
  IN [i \in DOMAIN choices |-> choices[i].action]

\* a paradox of one of the three types the engine raises was just handled
C27_Handled ==
  /\ call.op = "process_input"
  /\ paradox.checked
  /\ paradox.value.paradox_type
       \in {s_TEMPORAL_LOOP, s_CONTRADICTION, s_IMPOSSIBLE_STATE}

\* C27 as stated: after a paradox of any of the three types the resolution
\* node has four choices: accept, question, one option of the type, move on
C27_FourChoices ==
  C27_Handled
    => /\ Len(C27_Actions) = 4
       /\ C27_Actions[1] = <<"a","c","c","e","p","t">>
       /\ C27_Actions[2] = <<"q","u","e","s","t","i","o","n">>
       /\ C27_Actions[3] \notin {<<"a","c","c","e","p","t">>, <<"q","u","e","s","t","i","o","n">>, <<"g","o"," ","f","o","r","w","a","r","d">>}
       /\ C27_Actions[4] = <<"g","o"," ","f","o","r","w","a","r","d">>

\* C27 amended: the resolution node's choices are accept, question, then
\* "break cycle" after a TEMPORAL_LOOP, "embrace" after a CONTRADICTION and
\* nothing after an IMPOSSIBLE_STATE, then move on
C27_ChoicesByType ==
  C27_Handled
    => C27_Actions =
         <<<<"a","c","c","e","p","t">>, <<"q","u","e","s","t","i","o","n">>>>
         \o (IF paradox.value.paradox_type = s_TEMPORAL_LOOP
             THEN <<<<"b","r","e","a","k"," ","c","y","c","l","e">>>>
             ELSE IF paradox.value.paradox_type = s_CONTRADICTION
             THEN <<<<"e","m","b","r","a","c","e">>>>
             ELSE <<>>)
         \o <<<<"g","o"," ","f","o","r","w","a","r","d">>>>

\* an IMPOSSIBLE_STATE was handled: the resolution node has three choices
C27_Witness ==
  /\ C27_Handled
  /\ paradox.value.paradox_type = s_IMPOSSIBLE_STATE
  /\ nodes[Len(nodes)].node_type = "PARADOX"
  /\ current_node = nodes[Len(nodes)].id
  /\ Len(C27_Actions) = 3

-----------------------------------------------------------------------------
\* the paradoxes _handle_paradox is called with, by type and affected node
\* ids: an id that is in no graph of at most 3 nodes, the start node twice
\* around that id, the second node before the start node, the start node
AffectedSamples ==
  << [paradox_type |-> s_TEMPORAL_LOOP, affected_nodes |-> <<AbsentId>>],
     [paradox_type |-> s_CONTRADICTION, affected_nodes |-> <<1, AbsentId, 1>>],
     [paradox_type |-> s_IMPOSSIBLE_STATE, affected_nodes |-> <<2, 1>>],
     [paradox_type |-> s_TEMPORAL_LOOP, affected_nodes |-> <<1>>] >>

\* a call of _handle_paradox with a paradox that lists affected nodes, as
\* process_input would make it had a detector listed them
HandleParadox ==
  /\ Len(nodes) <= MaxSteps
  /\ \E k \in DOMAIN AffectedSamples :
       LET p == Paradox(AffectedSamples[k].paradox_type,
                        AffectedSamples[k].affected_nodes, <<>>, 7,
                        NoParadoxMetadata)
           e == _handle_paradox(Engine, p, parsed[StoryInputs[1]])
       IN /\ SetEngine(e)
          /\ call' = [op |-> "_handle_paradox", affected_nodes |-> k]
          /\ response' =
               Response("paradox",
                        choice_texts(node_at(e.story_graph, e.current_node).choices),
                        p.paradox_type, p.severity, None)
          /\ paradox' = Detection(TRUE, p)
  /\ UNCHANGED result

\* a game in which paradoxes with affected nodes are handled as well
NextAffected == Next \/ HandleParadox

SpecAffected == Init /\ [][NextAffected]_vars

\* the number of times node_id is listed in affected
C28_Listed(affected, node_id) ==
  Cardinality({i \in DOMAIN affected : affected[i] = node_id})

\* the sum of rewrite_count over the first n nodes of the graph
RECURSIVE C28_Rewrites(_)
C28_Rewrites(n) ==
  IF n = 0 THEN 0 ELSE C28_Rewrites(n - 1) + nodes[n].rewrite_count

\* C28: a call of _handle_paradox leaves every node of the graph in its
\* place with its rewrite_count raised by the number of times its id is
\* listed, its text changed when it is listed and kept when it is not, and
\* raises the engine's rewrite_count by the number of listed ids that are
\* in the graph (ids that are not in the graph count for nothing); and in
\* every state the engine's rewrite_count is the sum of the nodes'
C28_RewritesCounted ==
  /\ [](rewrite_count = C28_Rewrites(Len(nodes)))
  /\ [][call'.op = "_handle_paradox"
        => LET affected == AffectedSamples[call'.affected_nodes].affected_nodes
           IN /\ \A i \in DOMAIN nodes :
                   /\ nodes'[i].id = nodes[i].id
                   /\ nodes'[i].rewrite_count =
                        nodes[i].rewrite_count + C28_Listed(affected, nodes[i].id)
                   /\ (C28_Listed(affected, nodes[i].id) = 0)
                        <=> (nodes'[i].text = nodes[i].text)
              /\ rewrite_count' =
                   rewrite_count
                   + Cardinality({i \in DOMAIN affected :
                                    has_node(Engine.story_graph, affected[i])})]_vars

\* the start node was listed twice around an id that is not in the graph:
\* it was rewritten twice and nothing else was
C28_Witness ==
  /\ call = [op |-> "_handle_paradox", affected_nodes |-> 2]
  /\ ~has_node(Engine.story_graph, AbsentId)
  /\ nodes[1].rewrite_count = 2
  /\ rewrite_count = 2
  /\ Len(nodes) = 2

-----------------------------------------------------------------------------
\* the choices of a graph in which cycles overlap at most
MaxEdges == 4

\* graphs of up to three nodes, each added once, and up to MaxEdges choices,
\* searched for cycles
NextOverlap ==
  \/ \E node_id \in GraphIds :
       /\ ~has_node(Engine.story_graph, node_id)
       /\ AddNode(node_id)
  \/ \E node_id \in GraphIds, target_node_id \in GraphIds \cup {AbsentId} :
       /\ total_choices(nodes) < MaxEdges
       /\ AddChoice(node_id, target_node_id)
  \/ DetectCycles

SpecOverlap == InitObjects /\ [][NextOverlap]_vars

\* the simple cycles of the graph along Choice targets: the sequences of
\* distinct ids with an edge from each id to the next and from the last to
\* the first
C29_SimpleCycles ==
  {c \in UNION {[1..n -> GraphIds] : n \in 1..3} :
     /\ \A i, j \in DOMAIN c : c[i] = c[j] => i = j
     /\ \A i \in DOMAIN c : C10_Edge(c[i], c[(i % Len(c)) + 1])}

\* the returned cycle r is the simple cycle c from one of its ids round to
\* that id again
C29_Same(r, c) ==
  /\ Len(r) = Len(c) + 1
  /\ \E offset \in DOMAIN c :
       \A i \in DOMAIN r : r[i] = c[((i + offset - 2) % Len(c)) + 1]

\* C29: every simple cycle of the graph is among the cycles detect_cycles()
\* returns, from one of its ids round to that id again
C29_Exhaustive ==
  call.op = "detect_cycles"
    => \A c \in C29_SimpleCycles :
         \E i \in DOMAIN result.value : C29_Same(result.value[i], c)

\* C30: detect_cycles() returns a cycle exactly when the graph, dangling
\* Choice targets included, has a cycle along Choice targets, and every
\* cycle returned begins and ends with the same id and has an edge from each
\* of its ids to the next
C30_CyclesAreCycles ==
  call.op = "detect_cycles"
    => /\ (result.value # <<>>) <=> (C29_SimpleCycles # {})
       /\ \A i \in DOMAIN result.value :
            LET r == result.value[i]
            IN /\ Len(r) >= 2
               /\ r[1] = r[Len(r)]
               /\ \A k \in 1..(Len(r) - 1) : C10_Edge(r[k], r[k + 1])

\* two cycles returned on a graph with a dangling target: 1 -> 2 -> 1 and
\* 2 -> 2, with 1 -> 4 pointing nowhere
C30_Witness ==
  /\ call.op = "detect_cycles"
  /\ C10_Edge(1, AbsentId)
  /\ C10_Edge(1, 2) /\ C10_Edge(2, 1) /\ C10_Edge(2, 2)
  /\ Len(result.value) = 2

-----------------------------------------------------------------------------
\* entry i opposes the queried action: under one of the rules the lower-cased
\* action starts with one side and the entry's lower-cased action with the
\* other
C31_Opposes(i) ==
  \E r \in DOMAIN contradiction_rules :
    LET rule == contradiction_rules[r]
        action_lower == lower(call.action)
        prev_action == lower(history.entries[i].action)
    IN \/ startswith(action_lower, rule.action1) /\ startswith(prev_action, rule.action2)
       \/ startswith(action_lower, rule.action2) /\ startswith(prev_action, rule.action1)

\* C31: when every entry that opposes the queried action has at least 20
\* newer entries after it, detect_contradiction returns None
C31_OldEntriesForgotten ==
  (call.op = "detect_contradiction"
   /\ \A i \in DOMAIN history.entries :
        C31_Opposes(i) => i <= Len(history.entries) - 20)
  => result.type = "None"

\* "drop sword" / "sword" gets None although the first of 21 entries is
\* "take sword" / "sword"
C31_Witness ==
  /\ call = [op |-> "detect_contradiction", action |-> QuerySamples[1].action,
             target |-> QuerySamples[1].target]
  /\ Len(history.entries) = 21
  /\ history.entries[1].action = EntrySamples[2].action
  /\ history.entries[1].metadata.target = EntrySamples[2].target
  /\ C31_Opposes(1)
  /\ result.type = "None"

-----------------------------------------------------------------------------
\* the two sides of the sequence rules, in both orders
C32_Sides ==
  LET north == <<"g","o"," ","n","o","r","t","h">>
      south == <<"g","o"," ","s","o","u","t","h">>
      east == <<"g","o"," ","e","a","s","t">>
      west == <<"g","o"," ","w","e","s","t">>
  IN {<<north, south>>, <<south, north>>, <<east, west>>, <<west, east>>}

\* C32 as stated: a sequence contradiction is reported only when the
\* lower-cased action is one side of a sequence rule and the lower-cased
\* action of the entry reported is the other side
C32_ExactMatch ==
  (call.op = "detect_contradiction" /\ result.type = "sequence_contradiction")
  => \E sides \in C32_Sides :
       /\ lower(call.action) = sides[1]
       /\ lower(result.previous_action) = sides[2]

\* C32 amended: a sequence contradiction is reported exactly when the
\* lower-cased action starts with one side of a sequence rule and the
\* lower-cased action of one of the 20 most recent entries starts with the
\* other side, and the entry reported is such an entry; so "go southeast"
\* is reported against "go north", and "go south" against "go northeast"
C32_PrefixMatch ==
  call.op = "detect_contradiction"
  => /\ (result.type = "sequence_contradiction")
        <=> \E i \in DOMAIN history.entries, sides \in C32_Sides :
              /\ i > Len(history.entries) - 20
              /\ startswith(lower(call.action), sides[1])
              /\ startswith(lower(history.entries[i].action), sides[2])
     /\ (result.type = "sequence_contradiction")
        => \E sides \in C32_Sides :
             /\ startswith(lower(call.action), sides[1])
             /\ startswith(lower(result.previous_action), sides[2])

\* "go southeast" is reported against "go north"
C32_Witness ==
  /\ call.op = "detect_contradiction"
  /\ call.action = QuerySamples[7].action
  /\ result.type = "sequence_contradiction"
  /\ result.previous_action = EntrySamples[6].action

-----------------------------------------------------------------------------
\* the locations of location_map for direction; the empty set when the
\* direction is not a key
C33_Mapped(direction) ==
  UNION {{location_map[k].vals[i] : i \in DOMAIN location_map[k].vals} :
           k \in {k \in DOMAIN location_map : location_map[k].key = direction}}

\* C33: the player's location is always one of the eight known locations; an
\* advancement by a go command whose direction is a key of location_map
\* moves to a location of that direction's list, one by a go command with
\* another or no direction moves to a known location, and one by any other
\* verb leaves the location as it is
C33_KnownLocations ==
  /\ [](\E i \in DOMAIN all_locations : player.current_location = all_locations[i])
  /\ [][(call'.op = "process_input" /\ paradox'.checked
         /\ paradox'.value.paradox_type = None)
        => LET command == parse(call'.raw_input)
               mapped == C33_Mapped(get_direction(command.target))
           IN IF command.verb # s_go
              THEN player'.current_location = player.current_location
              ELSE IF mapped # {}
              THEN player'.current_location \in mapped
              ELSE \E i \in DOMAIN all_locations :
                     player'.current_location = all_locations[i]]_vars

\* "go ne", an unmapped direction, led from the beginning to the market
C33_Witness ==
  /\ call = [op |-> "process_input", raw_input |-> WordedInputs[2]]
  /\ response.type = "story"
  /\ Len(nodes) = 2
  /\ player.current_location = all_locations[8]

-----------------------------------------------------------------------------
\* C34: every step of a player keeps the snapshots of state_history as they
\* are and in their order, so its length never decreases, and a move_to or
\* a record_choice appends exactly one snapshot: the location, the
\* inventory, the visited locations and the number of choices after the call
C34_SnapshotsKept ==
  [][/\ Len(player'.state_history) >= Len(player.state_history)
     /\ SubSeq(player'.state_history, 1, Len(player.state_history))
          = player.state_history
     /\ call'.op \in {"move_to", "record_choice"}
          => /\ Len(player'.state_history) = Len(player.state_history) + 1
             /\ player'.state_history[Len(player'.state_history)] =
                  [location |-> player'.current_location,
                   inventory |-> player'.inventory,
                   visited_locations |-> player'.visited_locations,
                   choice_count |-> Len(player'.choice_history)]]_vars

\* the key was added after the player moved to the void and recorded a
\* choice: the three snapshots show no key and the places visited by then
C34_Witness ==
  /\ call.op = "add_item"
  /\ player.inventory = <<<<"k","e","y">>>>
  /\ Len(player.state_history) = 3
  /\ \A i \in 1..3 : player.state_history[i].inventory = <<>>
  /\ player.state_history[1].visited_locations = {s_the_beginning}
  /\ player.state_history[2].location = <<"t","h","e"," ","v","o","i","d">>
  /\ player.state_history[3].choice_count = 1

-----------------------------------------------------------------------------
\* C35: in every state of a game played from a new engine the history has
\* one entry for each choice recorded and each paradox handled, and the graph
\* has one node more than the history has entries
C35_EntriesAndNodes ==
  /\ Len(history.entries) = Len(player.choice_history) + paradox_count
  /\ Len(nodes) = 1 + Len(history.entries)

\* one advancement and one paradox, with system commands in between or not:
\* two entries and three nodes
C35_Witness ==
  /\ call.op = "process_input"
  /\ Len(player.choice_history) = 1
  /\ paradox_count = 1
  /\ Len(history.entries) = 2
  /\ Len(nodes) = 3
  /\ response.type = "system"

-----------------------------------------------------------------------------
\* C36: in every state of a game played from a new engine the node id of
\* every history entry is the id of a node of the graph, and the node id of
\* the last entry, when there is one, is the id of the current node
C36_EntriesPointIntoGraph ==
  /\ \A i \in DOMAIN history.entries :
       has_node(Engine.story_graph, history.entries[i].node_id)
  /\ history.entries # <<>>
       => history.entries[Len(history.entries)].node_id = current_node

\* two entries, for the second and the third node; the third, a resolution
\* node, is the current one
C36_Witness ==
  /\ call.op = "process_input"
  /\ Len(history.entries) = 2
  /\ history.entries[1].node_id = nodes[2].id
  /\ history.entries[2].node_id = nodes[3].id
  /\ nodes[3].node_type = "PARADOX"
  /\ current_node = nodes[3].id

-----------------------------------------------------------------------------
\* C37: a process_input call that returns a paradox response leaves every
\* field of the player as it was: the inventory, the location, the visited
\* locations, choice_history, action_history, state_history, the flags and
\* the variables
C37_ParadoxKeepsPlayer ==
  [][(call'.op = "process_input" /\ response'.type = "paradox")
     => player' = player]_vars

\* "drop sword" after "take sword" was answered by a CONTRADICTION: the
\* player still has one choice, one action and three snapshots
C37_Witness ==
  /\ call = [op |-> "process_input", raw_input |-> StoryInputs[5]]
  /\ response.type = "paradox"
  /\ response.paradox_type = s_CONTRADICTION
  /\ Len(player.choice_history) = 1
  /\ Len(player.action_history) = 1
  /\ player.action_history[1].original = StoryInputs[4]
  /\ Len(player.state_history) = 3

-----------------------------------------------------------------------------
\* C38: in every state of a game played from a new engine no Choice of a
\* node has a target node id, detect_cycles() returns the empty list, and
\* find_path(a, b) returns None for all distinct nodes a and b of the graph
C38_NoSuccessorLinks ==
  /\ \A i \in DOMAIN nodes : \A k \in DOMAIN nodes[i].choices :
       nodes[i].choices[k].target_node_id = NoId
  /\ detect_cycles(Engine.story_graph) = <<>>
  /\ \A i, j \in DOMAIN nodes :
       i # j => find_path(Engine.story_graph, nodes[i].id, nodes[j].id).kind = "None"

\* three nodes, each the predecessor of the next, the last two with choices
\* of the generator and of a paradox resolution, and no path from the first
\* to the third
C38_Witness ==
  /\ call.op = "process_input"
  /\ Len(nodes) = 3
  /\ nodes[2].previous_node_ids = <<nodes[1].id>>
  /\ nodes[3].previous_node_ids = <<nodes[2].id>>
  /\ nodes[2].node_type = "NARRATIVE" /\ Len(nodes[2].choices) >= 3
  /\ nodes[3].node_type = "PARADOX" /\ Len(nodes[3].choices) >= 3
  /\ find_path(Engine.story_graph, nodes[1].id, nodes[3].id).kind = "None"

-----------------------------------------------------------------------------
\* C39: a CONTRADICTION paradox is raised only when, for the two sides of
\* one rule, the command in canonical form ("<verb> <target>") starts with
\* one side and the lower-cased text of an earlier input, as it was typed,
\* starts with the other; an earlier input that reached its verb through an
\* alias or after a leading word does not count
C39_RawTextCounts ==
  [][(call'.op = "process_input" /\ paradox'.checked
      /\ paradox'.value.paradox_type = s_CONTRADICTION)
     => \E k \in DOMAIN player.action_history, sides \in C6_Sides \cup C32_Sides :
          /\ startswith(lower(command_action(parse(call'.raw_input))), sides[1])
          /\ startswith(lower(player.action_history[k].original), sides[2])]_vars

\* "discard sword" after "grab sword": both are parsed to their verbs, take
\* and drop, with the target "sword", and the story advances
C39_Witness ==
  /\ call = [op |-> "process_input", raw_input |-> WordedInputs[7]]
  /\ response.type = "story"
  /\ Len(player.action_history) = 2
  /\ player.action_history[1].original = WordedInputs[4]
  /\ player.action_history[1].verb = <<"t","a","k","e">>
  /\ player.action_history[2].verb = <<"d","r","o","p">>
  /\ player.action_history[1].target = player.action_history[2].target
  /\ paradox_count = 0

=============================================================================
